---------------------------- MODULE Spec2Model ----------------------------
(***************************************************************************)
(* A state-machine model of the BC protocol engine of the bachuan camera   *)
(* client: the cipher engine (bc_crypto.cpp), the frame codec              *)
(* (bc_header.cpp), the transport (connection.cpp), the login handshake    *)
(* (auth.cpp), the media parser (bc_media.cpp) and the stream session      *)
(* (stream.cpp).                                                           *)
(*                                                                         *)
(* Bytes are the integers 0..255 and byte strings are sequences of them.   *)
(* Text is modelled by its ASCII codes.  Two library primitives are        *)
(* abstracted by small deterministic stand-ins that keep their interface:  *)
(* OpenSSL's MD5 (MD5Hash) and the AES-128 block function (AesBlock); the  *)
(* CFB128 chaining, the fixed IV, the per-call reset and the key           *)
(* derivation around them are modelled as the code has them.  libxml2's    *)
(* document parsers are modelled as recognisers of the documents the       *)
(* model's camera can produce.                                             *)
(***************************************************************************)
EXTENDS Integers, Sequences, FiniteSets, TLC

(***************************************************************************)
(* Bounds of the model.                                                    *)
(***************************************************************************)
\* camera messages received in one run of the receive-path specification
MaxCamMsgs == 2
\* camera messages framed in one run of the framing specification
MaxFrameMsgs == 2
\* the two sizes of the pieces in which bytes reach the socket
ChunkSmall == 9
ChunkLarge == 22
\* records the camera puts into the media stream of one session
MaxStreamRecords == 2
\* the most bytes of the media stream the camera may cut off into one message
MediaChunk == 20
\* messages other than VIDEO the camera sends during one session
MaxOtherMsgs == 1
\* the largest msg_num the camera uses in its messages
MaxMsgNum == 2
\* the longest input handed to BcMediaParser::parse
MaxParseLen == 46
\* receive_message calls of the receive loop counted after stop() cleared the flag
MaxCallsAfterStop == 3
\* messages the camera frames during one session of SpecSession
MaxSessionMsgs == 3
\* next_msg_num() calls made in one run of SpecMsgNum
MaxNumCalls == 30
\* the calls a session of SpecMsgNum may have behind it when the run begins
NearWrapCalls == 65520
\* encrypt and decrypt calls made on one BcCrypto object in SpecCipher
MaxCipherCalls == 3

(***************************************************************************)
(* Program constants.                                                      *)
(***************************************************************************)
MAGIC_HEADER == 180150000
MAGIC_HEADER_REV == 267242400
MSG_ID_LOGIN == 1
MSG_ID_VIDEO == 3
MSG_ID_VIDEO_STOP == 4
MSG_ID_MOTION == 33
MSG_CLASS_LEGACY == 25876
MSG_CLASS_MODERN_20 == 26132
MSG_CLASS_MODERN_24 == 25620
MSG_CLASS_MODERN_24_ALT == 0
HEADER_SIZE_20 == 20
HEADER_SIZE_24 == 24
RESPONSE_CODE_OK == 200
RESPONSE_CODE_BAD_REQUEST == 400
ENC_REQ_NONE == 56320
ENC_REQ_BC == 56321
ENC_REQ_AES == 56338
ENC_RESP_NONE == 56576
ENC_RESP_BC == 56577
ENC_RESP_AES == 56578
ENC_RESP_FULL_AES == 56594
BCMEDIA_PAD_SIZE == 8
MAGIC_BCMEDIA_INFO_V1 == 825241649
MAGIC_BCMEDIA_INFO_V2 == 842018865
MAGIC_BCMEDIA_IFRAME == 1667510320
MAGIC_BCMEDIA_IFRAME_LAST == 1667510329
MAGIC_BCMEDIA_PFRAME == 1667510576
MAGIC_BCMEDIA_PFRAME_LAST == 1667510585
MAGIC_BCMEDIA_AAC == 1651979568
MAGIC_BCMEDIA_ADPCM == 1651978544
\* the attempts of a login receive phase (auth.cpp: attempts < 5)
LOGIN_RECV_ATTEMPTS == 5
\* the sizes of the two temp[] read buffers of receive_message
RECV_CHUNK_HEADER == 1024
RECV_CHUNK_BODY == 4096

BC_ENCRYPT_KEY == <<31, 45, 60, 75, 90, 105, 120, 255>>
\* "0123456789abcdef"
AES_IV == <<48, 49, 50, 51, 52, 53, 54, 55, 56, 57, 97, 98, 99, 100, 101, 102>>

\* std::optional: nullopt is None, a held value x is Some(x)
None == <<>>
Some(x) == <<x>>
Get(o) == o[1]

(***************************************************************************)
(* Byte helpers.                                                           *)
(***************************************************************************)
Min(a, b) == IF a < b THEN a ELSE b

RECURSIVE XorBits(_, _, _)
XorBits(a, b, n) ==
    IF n = 0 THEN 0
    ELSE (((a % 2) + (b % 2)) % 2) + 2 * XorBits(a \div 2, b \div 2, n - 1)

\* uint8_t a ^ b
Xor8(a, b) == XorBits(a, b, 8)

Drop(s, n) == SubSeq(s, n + 1, Len(s))
Take(s, n) == SubSeq(s, 1, Min(n, Len(s)))

write_u32_le(v) ==
    << v % 256, (v \div 256) % 256, (v \div 65536) % 256, (v \div 16777216) % 256 >>

write_u16_le(v) == << v % 256, (v \div 256) % 256 >>

\* data is a byte string, at is the 0-based position of the field
read_u32_le(data, at) ==
    data[at + 1] + 256 * data[at + 2] + 65536 * data[at + 3] + 16777216 * data[at + 4]

read_u16_le(data, at) == data[at + 1] + 256 * data[at + 2]

\* std::string::find: the 0-based position of the first occurrence, or npos
npos == -1

Find(s, pat) ==
    LET hits == { i \in 0..(Len(s) - Len(pat)) : SubSeq(s, i + 1, i + Len(pat)) = pat }
    IN  IF hits = {} THEN npos ELSE CHOOSE i \in hits : \A j \in hits : i <= j

(***************************************************************************)
(* Cipher engine (bc_crypto.cpp).                                          *)
(***************************************************************************)
\* A plausible slip: the offset byte advances with the position, as the key
\* index does.
bc_encrypt_decrypt_OffsetAdvances(offset, data) ==
    [ i \in 1..Len(data) |->
        Xor8(Xor8(data[i], BC_ENCRYPT_KEY[((offset + (i - 1)) % 8) + 1]),
             (offset + (i - 1)) % 256) ]

\* BcCrypto::bc_encrypt_decrypt
bc_encrypt_decrypt(offset, data) ==
    LET offset_byte == offset % 256
    IN  [ i \in 1..Len(data) |->
            Xor8(Xor8(data[i], BC_ENCRYPT_KEY[((offset + (i - 1)) % 8) + 1]), offset_byte) ]

\* Stand-in for the AES-128 block encryption E_key(block) of OpenSSL.
AesBlock(key, blk) ==
    [ i \in 1..16 |-> (key[i] + 3 * blk[i] + 7 * blk[(i % 16) + 1] + 11 * i) % 256 ]

\* The feedback register for the block holding 1-based byte i of ciphertext c.
CfbRegister(c, i) ==
    LET b == (i - 1) \div 16
    IN  IF b = 0 THEN AES_IV ELSE SubSeq(c, 16 * (b - 1) + 1, 16 * b)

\* BcCrypto::aes_decrypt: reset to the IV, then CFB128 over the whole input
aes_decrypt(key, data) ==
    [ i \in 1..Len(data) |->
        Xor8(data[i], AesBlock(key, CfbRegister(data, i))[((i - 1) % 16) + 1]) ]

RECURSIVE AesEncryptFrom(_, _, _)
AesEncryptFrom(key, data, done) ==
    IF Len(done) = Len(data) THEN done
    ELSE LET i == Len(done) + 1
             c == Xor8(data[i], AesBlock(key, CfbRegister(done, i))[((i - 1) % 16) + 1])
         IN  AesEncryptFrom(key, data, Append(done, c))

\* BcCrypto::aes_encrypt: reset to the IV, then CFB128 over the whole input
aes_encrypt(key, data) == AesEncryptFrom(key, data, <<>>)

\* An EVP_CIPHER_CTX in CFB128 mode: the feedback register and the number of its
\* bytes already used.  EVP_EncryptInit_ex and EVP_DecryptInit_ex with a key
\* and the IV give CipherFresh.
CipherFresh == [iv |-> AES_IV, num |-> 0]

RECURSIVE CfbUpdate(_, _, _, _, _)
\* EVP_EncryptUpdate and EVP_DecryptUpdate in CFB128 mode: the register is
\* encrypted when a block begins, each byte is XORed with the next register
\* byte, and the ciphertext byte takes that byte's place
CfbUpdate(key, st, data, encrypting, out) ==
    IF data = <<>> THEN [out |-> out, st |-> st]
    ELSE LET iv == IF st.num = 0 THEN AesBlock(key, st.iv) ELSE st.iv
             o == Xor8(Head(data), iv[st.num + 1])
             c == IF encrypting THEN o ELSE Head(data)
         IN  CfbUpdate(key, [iv |-> [iv EXCEPT ![st.num + 1] = c], num |-> (st.num + 1) % 16],
                       Tail(data), encrypting, Append(out, o))

\* AesContext::init (bc_crypto.cpp:26-47)
AesContext_init(key) == [key |-> key, enc_ctx |-> CipherFresh, dec_ctx |-> CipherFresh]

\* A plausible slip: the context is not initialised again.
reset_enc_KeepsState(ctx) == ctx

\* AesContext::reset_enc
reset_enc(ctx) == [ctx EXCEPT !.enc_ctx = CipherFresh]

\* AesContext::reset_dec
reset_dec(ctx) == [ctx EXCEPT !.dec_ctx = CipherFresh]

\* A plausible slip: the counter is read and not incremented.
next_msg_num_NoIncrement(counter) == counter

\* Connection::next_msg_num: ++msg_num_counter_ on a std::atomic<uint16_t>, the
\* new value of the counter and the value returned
next_msg_num(counter) == (counter + 1) % 65536

\* A BcCrypto value: its type_ and the key of its AesContext (<<>> when none)
Unencrypted == "Unencrypted"
BCEncrypt == "BCEncrypt"
Aes == "Aes"
FullAes == "FullAes"

EncryptionType == {Unencrypted, BCEncrypt, Aes, FullAes}

BcCrypto(type, key) == [type |-> type, key |-> key]

\* BcCrypto::encrypt
encrypt(crypto, offset, data) ==
    CASE crypto.type = Unencrypted -> data
      [] crypto.type = BCEncrypt -> bc_encrypt_decrypt(offset, data)
      [] OTHER -> aes_encrypt(crypto.key, data)

\* BcCrypto::decrypt
decrypt(crypto, offset, data) ==
    CASE crypto.type = Unencrypted -> data
      [] crypto.type = BCEncrypt -> bc_encrypt_decrypt(offset, data)
      [] OTHER -> aes_decrypt(crypto.key, data)

\* Stand-in for OpenSSL's MD5: a 16-byte digest of the input bytes.
MD5Hash(s) ==
    LET RECURSIVE Mix(_, _)
        Mix(k, i) == IF k = 0 THEN 17 * i + Len(s)
                     ELSE (Mix(k - 1, i) * 31 + s[k] * (i + k)) % 256
    IN  [ i \in 1..16 |-> Mix(Len(s), i) % 256 ]

\* "0123456789ABCDEF"
HexUpper == <<48, 49, 50, 51, 52, 53, 54, 55, 56, 57, 65, 66, 67, 68, 69, 70>>

\* the std::uppercase << std::hex << setw(2) rendering of a digest
ToHexUpper(digest) ==
    [ i \in 1..(2 * Len(digest)) |->
        LET b == digest[(i + 1) \div 2]
        IN  IF i % 2 = 1 THEN HexUpper[(b \div 16) + 1] ELSE HexUpper[(b % 16) + 1] ]

\* A plausible slip: the password comes first in the key phrase.
derive_aes_key_PasswordFirst(password, nonce) ==
    SubSeq(ToHexUpper(MD5Hash(password \o <<45>> \o nonce)), 1, 16)

\* BcCrypto::derive_aes_key; 45 is '-'
derive_aes_key(password, nonce) ==
    LET key_phrase == nonce \o <<45>> \o password
        hex_str == ToHexUpper(MD5Hash(key_phrase))
    IN  SubSeq(hex_str, 1, 16)

(***************************************************************************)
(* Frame codec (bc_header.h, bc_header.cpp).                               *)
(***************************************************************************)
\* a BcHeader with the defaults of the struct
BcHeader(msg_id, msg_num, msg_class) ==
    [ magic |-> MAGIC_HEADER, msg_id |-> msg_id, body_len |-> 0, channel_id |-> 0,
      stream_type |-> 0, msg_num |-> msg_num, response_code |-> 0,
      msg_class |-> msg_class, payload_offset |-> None ]

\* BcHeader::is_modern_with_offset
is_modern_with_offset(h) ==
    h.msg_class = MSG_CLASS_MODERN_24 \/ h.msg_class = MSG_CLASS_MODERN_24_ALT

\* BcHeader::header_size
header_size(h) ==
    IF h.msg_class = MSG_CLASS_MODERN_24 \/ h.msg_class = MSG_CLASS_MODERN_24_ALT
    THEN HEADER_SIZE_24 ELSE HEADER_SIZE_20

\* A plausible slip: the payload_offset field is not written.
BcHeader_serialize_NoOffsetField(h) ==
    write_u32_le(h.magic) \o write_u32_le(h.msg_id) \o write_u32_le(h.body_len)
    \o <<h.channel_id>> \o <<h.stream_type>>
    \o write_u16_le(h.msg_num) \o write_u16_le(h.response_code) \o write_u16_le(h.msg_class)

\* BcHeader::serialize
BcHeader_serialize(h) ==
    write_u32_le(h.magic) \o write_u32_le(h.msg_id) \o write_u32_le(h.body_len)
    \o <<h.channel_id>> \o <<h.stream_type>>
    \o write_u16_le(h.msg_num) \o write_u16_le(h.response_code) \o write_u16_le(h.msg_class)
    \o (IF is_modern_with_offset(h)
        THEN write_u32_le(IF h.payload_offset = None THEN 0 ELSE Get(h.payload_offset))
        ELSE <<>>)

\* BcHeader::deserialize: size is the bytes consumed, 0 on error
BcHeader_deserialize(data) ==
    IF Len(data) < HEADER_SIZE_20 THEN [size |-> 0, header |-> None]
    ELSE IF read_u32_le(data, 0) # MAGIC_HEADER /\ read_u32_le(data, 0) # MAGIC_HEADER_REV
    THEN [size |-> 0, header |-> None]
    ELSE LET h == [ magic |-> read_u32_le(data, 0),
                    msg_id |-> read_u32_le(data, 4),
                    body_len |-> read_u32_le(data, 8),
                    channel_id |-> data[13],
                    stream_type |-> data[14],
                    msg_num |-> read_u16_le(data, 14),
                    response_code |-> read_u16_le(data, 16),
                    msg_class |-> read_u16_le(data, 18),
                    payload_offset |-> None ]
         IN  IF is_modern_with_offset(h)
             THEN IF Len(data) < HEADER_SIZE_24 THEN [size |-> 0, header |-> None]
                  ELSE [ size |-> HEADER_SIZE_24,
                         header |-> Some([h EXCEPT !.payload_offset = Some(read_u32_le(data, 20))]) ]
             ELSE [size |-> HEADER_SIZE_20, header |-> Some(h)]

BcMessage(h, ext, payload) ==
    [header |-> h, extension_data |-> ext, payload_data |-> payload]

\* BcMessage::create_header_only
create_header_only(msg_id, msg_num, msg_class) ==
    LET h == BcHeader(msg_id, msg_num, msg_class)
    IN  BcMessage(IF is_modern_with_offset(h) THEN [h EXCEPT !.payload_offset = Some(0)] ELSE h,
                  <<>>, <<>>)

\* BcMessage::create_with_payload
create_with_payload(msg_id, msg_num, xml_payload, msg_class) ==
    LET h == [BcHeader(msg_id, msg_num, msg_class) EXCEPT !.body_len = Len(xml_payload)]
    IN  BcMessage(IF is_modern_with_offset(h) THEN [h EXCEPT !.payload_offset = Some(0)] ELSE h,
                  <<>>, xml_payload)

\* BcMessage::create_with_extension
create_with_extension(msg_id, msg_num, extension_xml, payload, msg_class) ==
    LET h == [BcHeader(msg_id, msg_num, msg_class)
                EXCEPT !.body_len = Len(extension_xml) + Len(payload)]
    IN  BcMessage(IF is_modern_with_offset(h)
                  THEN [h EXCEPT !.payload_offset = Some(Len(extension_xml))] ELSE h,
                  extension_xml, payload)

\* BcMessage::serialize
BcMessage_serialize(msg) ==
    BcHeader_serialize(msg.header) \o msg.extension_data \o msg.payload_data

(***************************************************************************)
(* Transport (connection.cpp): the receive path.                           *)
(***************************************************************************)
\* "<binaryData>1</binaryData>"
BinaryDataTag ==
    <<60, 98, 105, 110, 97, 114, 121, 68, 97, 116, 97, 62, 49,
      60, 47, 98, 105, 110, 97, 114, 121, 68, 97, 116, 97, 62>>
\* "<encryptLen>"
EncryptLenOpen == <<60, 101, 110, 99, 114, 121, 112, 116, 76, 101, 110, 62>>
\* "</encryptLen>"
EncryptLenClose == <<60, 47, 101, 110, 99, 114, 121, 112, 116, 76, 101, 110, 62>>

\* std::string::substr(pos, n); a count that wrapped below zero runs to the end
Substr(s, pos, n) ==
    IF n < 0 THEN Drop(s, pos) ELSE SubSeq(s, pos + 1, Min(pos + n, Len(s)))

IsDigit(c) == c >= 48 /\ c <= 57

RECURSIVE DigitsValue(_, _)
DigitsValue(s, acc) ==
    IF s = <<>> \/ ~IsDigit(Head(s)) THEN acc
    ELSE DigitsValue(Tail(s), 10 * acc + (Head(s) - 48))

\* std::stoul on the digit strings of the model: the value of the leading digits;
\* throws when there is none
stoul(s) ==
    IF s = <<>> \/ ~IsDigit(Head(s)) THEN [throws |-> TRUE, value |-> None]
    ELSE [throws |-> FALSE, value |-> Some(DigitsValue(s, 0))]

\* connection.cpp:250-257: encrypt_len parsed from the decrypted extension text
ParseEncryptLen(ext_str) ==
    LET enc_start == Find(ext_str, EncryptLenOpen)
        enc_end == Find(ext_str, EncryptLenClose)
    IN  IF enc_start # npos /\ enc_end # npos
        THEN stoul(Substr(ext_str, enc_start + 12, enc_end - (enc_start + 12)))
        ELSE [throws |-> FALSE, value |-> None]

\* A plausible slip in the FullAes split: the cleartext tail goes through the
\* cipher with the announced prefix.
DecryptPayload_TailThroughCipher(crypto, channel_id, payload_wire, is_binary, encrypt_len) ==
    IF crypto.type = Unencrypted \/ (is_binary /\ crypto.type # FullAes) THEN payload_wire
    ELSE IF is_binary /\ (encrypt_len = None \/ Get(encrypt_len) = 0) THEN payload_wire
    ELSE decrypt(crypto, channel_id, payload_wire)

\* connection.cpp:271-316: which payload bytes go through the cipher
DecryptPayload(crypto, channel_id, payload_wire, is_binary, encrypt_len) ==
    IF crypto.type = FullAes /\ is_binary /\ encrypt_len # None /\ Get(encrypt_len) > 0
    THEN IF Get(encrypt_len) < Len(payload_wire)
         THEN decrypt(crypto, channel_id, SubSeq(payload_wire, 1, Get(encrypt_len)))
              \o Drop(payload_wire, Get(encrypt_len))
         ELSE decrypt(crypto, channel_id, payload_wire)
    ELSE IF crypto.type = FullAes /\ ~is_binary
    THEN decrypt(crypto, channel_id, payload_wire)
    ELSE IF crypto.type # Unencrypted /\ ~is_binary
    THEN decrypt(crypto, channel_id, payload_wire)
    ELSE payload_wire

\* connection.cpp:223-316: the branch taken when the header has payload_offset > 0
\* and the offset lies within the body
DecodeWithExtension(header, body, crypto, binary_mode_nums) ==
    LET offset == Get(header.payload_offset)
        ext_wire == SubSeq(body, 1, offset)
        payload_wire == Drop(body, offset)
        extension_data ==
            IF crypto.type # Unencrypted /\ ext_wire # <<>>
            THEN decrypt(crypto, header.channel_id, ext_wire) ELSE ext_wire
        in_binary_from_extension ==
            extension_data # <<>> /\ Find(extension_data, BinaryDataTag) # npos
        nums == IF in_binary_from_extension
                THEN binary_mode_nums \cup {header.msg_num} ELSE binary_mode_nums
        parsed == IF extension_data # <<>> THEN ParseEncryptLen(extension_data)
                  ELSE [throws |-> FALSE, value |-> None]
        is_binary == in_binary_from_extension \/ header.msg_num \in nums
    IN  [ throws |-> parsed.throws,
          msg |-> BcMessage(header, extension_data,
                            DecryptPayload(crypto, header.channel_id, payload_wire,
                                           is_binary, parsed.value)),
          binary_mode_nums |-> nums ]

\* connection.cpp:317-322: payload_offset beyond the body, the whole body is payload
DecodeOffsetBeyondBody(header, body, crypto, binary_mode_nums) ==
    [ throws |-> FALSE,
      msg |-> BcMessage(header, <<>>,
                        IF crypto.type # Unencrypted
                        THEN decrypt(crypto, header.channel_id, body) ELSE body),
      binary_mode_nums |-> binary_mode_nums ]

\* A plausible slip: VIDEO and VIDEO_STOP bodies are decrypted like any other.
DecodeNoExtension_VideoDecrypted(header, body, crypto, binary_mode_nums) ==
    LET is_binary == header.msg_num \in binary_mode_nums
    IN  [ throws |-> FALSE,
          msg |-> BcMessage(header, <<>>,
                            IF crypto.type # Unencrypted /\ ~is_binary
                            THEN decrypt(crypto, header.channel_id, body) ELSE body),
          binary_mode_nums |-> binary_mode_nums ]

\* connection.cpp:323-336: no payload_offset (or 0), the whole body is payload
DecodeNoExtension(header, body, crypto, binary_mode_nums) ==
    LET is_binary == header.msg_num \in binary_mode_nums
        is_video_msg == header.msg_id = MSG_ID_VIDEO \/ header.msg_id = MSG_ID_VIDEO_STOP
    IN  [ throws |-> FALSE,
          msg |-> BcMessage(header, <<>>,
                            IF crypto.type # Unencrypted /\ ~is_binary /\ ~is_video_msg
                            THEN decrypt(crypto, header.channel_id, body) ELSE body),
          binary_mode_nums |-> binary_mode_nums ]

\* connection.cpp:212-337: split the body and decrypt selectively
DecodeBody(header, body, crypto, binary_mode_nums) ==
    IF header.body_len > 0
    THEN IF header.payload_offset # None /\ Get(header.payload_offset) > 0
         THEN IF Get(header.payload_offset) <= Len(body)
              THEN DecodeWithExtension(header, body, crypto, binary_mode_nums)
              ELSE DecodeOffsetBeyondBody(header, body, crypto, binary_mode_nums)
         ELSE DecodeNoExtension(header, body, crypto, binary_mode_nums)
    ELSE [ throws |-> FALSE, msg |-> BcMessage(header, <<>>, <<>>),
           binary_mode_nums |-> binary_mode_nums ]

\* A plausible slip: every call reads what the socket holds before it looks at
\* its buffer.
ReadLoop_DrainsSocket(buffer, sk, need, chunk) ==
    [ok |-> Len(buffer \o sk) >= need, buffer |-> buffer \o sk, sock |-> <<>>]

\* The read loops of receive_message (connection.cpp:164-180 and 192-210): while
\* fewer than need bytes are buffered, wait for data and recv() up to chunk bytes.
\* sk holds the bytes that reach the socket before the timeout; with none left the
\* wait fails (poll times out, or the peer has closed) and the call returns nullopt.
RECURSIVE ReadLoop(_, _, _, _)
ReadLoop(buffer, sk, need, chunk) ==
    IF Len(buffer) >= need THEN [ok |-> TRUE, buffer |-> buffer, sock |-> sk]
    ELSE IF sk = <<>> THEN [ok |-> FALSE, buffer |-> buffer, sock |-> sk]
    ELSE LET n == Min(chunk, Len(sk))
         IN  ReadLoop(buffer \o SubSeq(sk, 1, n), Drop(sk, n), need, chunk)

\* A plausible slip: the whole buffer is dropped once a message is extracted.
EraseProcessed_ClearsBuffer(buffer, total_size) == <<>>

\* connection.cpp:341: recv_buffer_.erase(begin, begin + total_size)
EraseProcessed(buffer, total_size) == Drop(buffer, total_size)

\* The number of buffered bytes the first loop waits for (connection.cpp:164).
HeaderWait == HEADER_SIZE_24

\* Connection::receive_message on a connected socket.  msg is None for nullopt.
receive_message(buffer, sk, crypto, binary_mode_nums) ==
    LET first == ReadLoop(buffer, sk, HeaderWait, RECV_CHUNK_HEADER)
        parsed == BcHeader_deserialize(first.buffer)
        header == Get(parsed.header)
        total_size == parsed.size + header.body_len
        second == ReadLoop(first.buffer, first.sock, total_size, RECV_CHUNK_BODY)
        body == SubSeq(second.buffer, parsed.size + 1, total_size)
        decoded == DecodeBody(header, body, crypto, binary_mode_nums)
        failed(b, k) == [ msg |-> None, throws |-> FALSE, recv_buffer |-> b, sock |-> k,
                          binary_mode_nums |-> binary_mode_nums, body_len |-> 0 ]
    IN  IF ~first.ok THEN failed(first.buffer, first.sock)
        ELSE IF parsed.size = 0 THEN failed(first.buffer, first.sock)
        ELSE IF ~second.ok THEN failed(second.buffer, second.sock)
        ELSE IF decoded.throws
        THEN [ msg |-> None, throws |-> TRUE, recv_buffer |-> second.buffer,
               sock |-> second.sock, binary_mode_nums |-> decoded.binary_mode_nums,
               body_len |-> 0 ]
        ELSE [ msg |-> Some(decoded.msg), throws |-> FALSE,
               recv_buffer |-> EraseProcessed(second.buffer, total_size),
               sock |-> second.sock,
               binary_mode_nums |-> decoded.binary_mode_nums,
               body_len |-> header.body_len ]

\* Why a receive_message call returns nullopt (connection.cpp:164-210): with no
\* bytes left to read, poll() times out on an open connection and recv() returns
\* 0 on one the peer has closed; a header deserialize refuses is invalid.
receive_failure(buffer, sk, closed) ==
    LET first == ReadLoop(buffer, sk, HeaderWait, RECV_CHUNK_HEADER)
        parsed == BcHeader_deserialize(first.buffer)
        total_size == parsed.size + Get(parsed.header).body_len
        second == ReadLoop(first.buffer, first.sock, total_size, RECV_CHUNK_BODY)
        starved == IF closed THEN "closed" ELSE "timeout"
    IN  IF ~first.ok THEN starved
        ELSE IF parsed.size = 0 THEN "invalid_header"
        ELSE IF ~second.ok THEN starved
        ELSE ""

\* Connection::send_message up to send_raw: the bytes written to the socket
send_message_bytes(msg, crypto) ==
    LET data == BcMessage_serialize(msg)
        hsize == header_size(msg.header)
    IN  IF Len(data) > hsize /\ crypto.type # Unencrypted
        THEN SubSeq(data, 1, hsize) \o encrypt(crypto, msg.header.channel_id, Drop(data, hsize))
        ELSE data

(***************************************************************************)
(* State.                                                                  *)
(***************************************************************************)
VARIABLES
    \* Connection (connection.h)
    crypto,             \* crypto_
    send_offset,        \* send_offset_
    recv_offset,        \* recv_offset_
    recv_buffer,        \* recv_buffer_
    binary_mode_nums,   \* binary_mode_nums_
    msg_num_counter,    \* msg_num_counter_
    \* the TCP connection
    wire,               \* bytes the camera has written that have not reached the socket
    sock,               \* bytes that have reached the socket and were not yet recv()ed
    sent,               \* the byte strings the client has written, in order
    \* history
    cam_sent,           \* the messages the camera has framed, in order
    recv_log,           \* one entry per message returned by receive_message
    last_ok,            \* whether the last receive_message call returned a message
    \* Authenticator::login (auth.h, auth.cpp)
    pc,                 \* where login() stands
    credentials,        \* the username and password arguments
    max_encryption,     \* max_encryption_
    login_msg_num,      \* login_msg_num_
    attempts,           \* the loop counter of the receive phase under way
    negotiation,        \* the optional returned by receive_encryption_negotiation
    aes_key,            \* aes_key of login()
    use_aes_after_login,
    use_full_aes,
    login_response,     \* the LOGIN message receive_login_response broke its loop on
    result,             \* the LoginResult of login()
    phase_log,          \* what each receive_message call of the phase returned
    \* VideoStream (stream.h, stream.cpp)
    stream_pc,          \* where the caller of start() and stop() stands
    thread_pc,          \* where receive_thread_ stands in receive_loop
    streaming,          \* streaming_
    media_buffer,       \* media_buffer_
    stats,              \* stats_
    stream_info_received,
    stream_info,        \* stream_info_
    stream_binary_nums, \* VideoStream::binary_mode_nums_
    frames,             \* the frames handed to frame_callback_, in order
    \* the camera's media stream
    media_records,      \* the records the camera has put into the stream
    media_sent,         \* how many bytes of them it has sent in VIDEO messages
    \* the socket of the connection
    socket_fd,          \* socket_fd_: 0 stands for the descriptor of connect(), -1 for none
    fd_open,            \* whether that descriptor is still open in the kernel
    peer_closed,        \* the camera has closed its end of the connection
    \* a thread in Connection::receive_message, a thread in Connection::disconnect
    rx,                 \* the receiving thread: its position and its locals
    disc_pc,            \* where the disconnecting thread stands
    hazards,            \* history: the unsynchronised accesses that have happened
    \* receive_loop, history
    last_failure,       \* why the last receive_message call of the loop returned nullopt
    calls_after_stop,   \* receive_message calls the loop began after streaming_ was cleared
    other_stop,         \* where a second thread that calls stop() stands
    \* next_msg_num, history
    num_calls,          \* the calls made so far
    last_num,           \* the value the last call returned
    prev_num,           \* the value the call before it returned
    \* BcCrypto::AesContext
    aes_ctx,            \* enc_ctx and dec_ctx: the state OpenSSL keeps between calls
    cipher_log,         \* the aes_encrypt and aes_decrypt calls made, with what they returned
    \* one call of a function on its own
    call_args,          \* the arguments
    call_result,        \* what the call returned, once made
    \* the build
    adpcm_underflow,    \* what assign() does with a range that ends before it begins
    media_thrown        \* an exception has left process_media_data

connVars == <<crypto, send_offset, recv_offset, recv_buffer, binary_mode_nums,
              msg_num_counter>>
netVars == <<wire, sock, sent>>
histVars == <<cam_sent, recv_log, last_ok>>
authVars == <<pc, credentials, max_encryption, login_msg_num, attempts, negotiation,
              aes_key, use_aes_after_login, use_full_aes, login_response, result,
              phase_log>>
streamVars == <<stream_pc, thread_pc, streaming, media_buffer, stats, stream_info_received,
                stream_info, stream_binary_nums, frames, media_records, media_sent>>
sockVars == <<socket_fd, fd_open, peer_closed>>
raceVars == <<rx, disc_pc, hazards>>
loopVars == <<last_failure, calls_after_stop, other_stop>>
numVars == <<num_calls, last_num, prev_num>>
cipherVars == <<aes_ctx, cipher_log>>
callVars == <<call_args, call_result>>
buildVars == <<adpcm_underflow, media_thrown>>
extVars == <<sockVars, raceVars, loopVars, numVars, cipherVars, callVars, buildVars>>
vars == <<connVars, netVars, histVars, authVars, streamVars, extVars>>

(***************************************************************************)
(* The camera: the messages it frames.  A camera message is its header,    *)
(* the plaintext of its extension region and the bytes of its payload      *)
(* region as they travel; the extension is encrypted with the session      *)
(* cipher on the way out.                                                  *)
(***************************************************************************)
CamMsg(h, ext, payload) == [header |-> h, ext |-> ext, payload |-> payload]

CamWireBody(m, c) ==
    (IF m.ext = <<>> THEN <<>> ELSE encrypt(c, m.header.channel_id, m.ext)) \o m.payload

CamWire(m, c) == BcHeader_serialize(m.header) \o CamWireBody(m, c)

\* a camera message with an extension region of the given text
CamWithExt(msg_id, n, ext, payload) ==
    CamMsg([BcHeader(msg_id, n, MSG_CLASS_MODERN_24)
              EXCEPT !.body_len = Len(ext) + Len(payload),
                     !.payload_offset = Some(Len(ext)),
                     !.response_code = RESPONSE_CODE_OK],
           ext, payload)

\* a camera message without an extension region, of any class
CamNoExt(msg_id, n, class, payload) ==
    CamMsg([BcHeader(msg_id, n, class)
              EXCEPT !.body_len = Len(payload),
                     !.payload_offset = IF class \in {MSG_CLASS_MODERN_24, MSG_CLASS_MODERN_24_ALT}
                                        THEN Some(0) ELSE None,
                     !.response_code = RESPONSE_CODE_OK],
           <<>>, payload)

\* a camera message whose header announces a payload_offset beyond its body
CamOffsetBeyond(msg_id, n, payload) ==
    CamMsg([BcHeader(msg_id, n, MSG_CLASS_MODERN_24)
              EXCEPT !.body_len = Len(payload),
                     !.payload_offset = Some(Len(payload) + 6),
                     !.response_code = RESPONSE_CODE_OK],
           <<>>, payload)

\* "<encryptLen>N</encryptLen>" for a one-digit N
EncryptLenTag(N) == EncryptLenOpen \o <<48 + N>> \o EncryptLenClose
\* "<a/>": an extension that announces nothing
PlainExt == <<60, 97, 47, 62>>
\* the payload bytes the model's camera sends
CamPayload == <<201, 202, 203>>

MsgNums == 1..MaxMsgNum

\* the encryptLen values the camera announces: none encrypted, a proper prefix,
\* more than the payload holds
EncryptLens == {0, 2, 5}

RecvCamMessages ==
    { CamWithExt(MSG_ID_VIDEO, n, BinaryDataTag, CamPayload) : n \in MsgNums }
    \cup { CamWithExt(MSG_ID_VIDEO, n, PlainExt, CamPayload) : n \in MsgNums }
    \cup { CamWithExt(MSG_ID_VIDEO, 1, BinaryDataTag \o EncryptLenTag(N), CamPayload) :
             N \in EncryptLens }
    \cup { CamWithExt(MSG_ID_VIDEO, 1, EncryptLenTag(2), CamPayload),
           CamNoExt(MSG_ID_MOTION, 1, MSG_CLASS_MODERN_24, CamPayload),
           CamNoExt(MSG_ID_MOTION, 1, MSG_CLASS_MODERN_20, CamPayload),
           CamNoExt(MSG_ID_VIDEO, 2, MSG_CLASS_MODERN_24, CamPayload),
           CamOffsetBeyond(MSG_ID_VIDEO, 1, CamPayload) }

\* the credentials and the nonce of the session: "pw", "ABC"
SessionPassword == <<112, 119>>
SessionNonce == <<65, 66, 67>>
SessionKey == derive_aes_key(SessionPassword, SessionNonce)

\* the ciphers a connection holds once a login has completed
SessionCiphers ==
    { BcCrypto(Unencrypted, <<>>), BcCrypto(BCEncrypt, <<>>),
      BcCrypto(Aes, SessionKey), BcCrypto(FullAes, SessionKey) }

(***************************************************************************)
(* BcMedia parser (bc_media.h, bc_media.cpp).  data holds the bytes from   *)
(* the parse position to the end of the buffer, len is its length.         *)
(***************************************************************************)
calculate_padding(size) ==
    LET remainder == size % BCMEDIA_PAD_SIZE
    IN  IF remainder = 0 THEN 0 ELSE BCMEDIA_PAD_SIZE - remainder

\* "H264" or "H265"; anything else reads as H264
parse_video_type(data) ==
    IF data[1] = 72 /\ data[2] = 50 /\ data[3] = 54 /\ data[4] = 53 THEN "H265" ELSE "H264"

\* A plausible slip: no magic is refused, so nothing is ever skipped.
is_bcmedia_magic_Any(magic) == TRUE

is_bcmedia_magic(magic) ==
    \/ magic = MAGIC_BCMEDIA_INFO_V1
    \/ magic = MAGIC_BCMEDIA_INFO_V2
    \/ (magic >= MAGIC_BCMEDIA_IFRAME /\ magic <= MAGIC_BCMEDIA_IFRAME_LAST)
    \/ (magic >= MAGIC_BCMEDIA_PFRAME /\ magic <= MAGIC_BCMEDIA_PFRAME_LAST)
    \/ magic = MAGIC_BCMEDIA_AAC
    \/ magic = MAGIC_BCMEDIA_ADPCM

\* the pair (frame, consumed) a record parser returns
Parsed(frame, consumed) == Some([frame |-> frame, consumed |-> consumed])

parse_info(data) ==
    IF Len(data) < 32 THEN None
    ELSE Parsed([ type |-> "Info",
                  video_width |-> read_u32_le(data, 4),
                  video_height |-> read_u32_le(data, 8),
                  fps |-> data[14],
                  start |-> SubSeq(data, 15, 20),
                  end |-> SubSeq(data, 21, 26) ],
                32)

parse_iframe(data) ==
    IF Len(data) < 20 THEN None
    ELSE LET payload_size == read_u32_le(data, 4)
             additional_header == read_u32_le(data, 8)
             header_consumed == IF additional_header >= 4 THEN 20 + additional_header ELSE 20
             total_size == header_consumed + payload_size + calculate_padding(payload_size)
         IN  IF additional_header >= 4 /\ Len(data) < 24 THEN None
             ELSE IF Len(data) < total_size THEN None
             ELSE Parsed([ type |-> "IFrame",
                           codec |-> parse_video_type(data),
                           microseconds |-> read_u32_le(data, 12),
                           posix_time |-> IF additional_header >= 4
                                          THEN Some(read_u32_le(data, 20)) ELSE None,
                           data |-> SubSeq(data, header_consumed + 1,
                                           header_consumed + payload_size) ],
                         total_size)

parse_pframe(data) ==
    IF Len(data) < 20 THEN None
    ELSE LET payload_size == read_u32_le(data, 4)
             additional_header == read_u32_le(data, 8)
             header_consumed == 20 + additional_header
             total_size == header_consumed + payload_size + calculate_padding(payload_size)
         IN  IF Len(data) < total_size THEN None
             ELSE Parsed([ type |-> "PFrame",
                           codec |-> parse_video_type(data),
                           microseconds |-> read_u32_le(data, 12),
                           data |-> SubSeq(data, header_consumed + 1,
                                           header_consumed + payload_size) ],
                         total_size)

\* A plausible slip: the record is not checked against the bytes there are.
parse_aac_NoLengthCheck(data) ==
    IF Len(data) < 4 THEN None
    ELSE LET payload_size == read_u16_le(data, 0)
             total_size == 4 + payload_size + calculate_padding(payload_size)
         IN  Parsed([ type |-> "Aac", data |-> Take(Drop(data, 4), payload_size) ],
                    total_size)

parse_aac(data) ==
    IF Len(data) < 4 THEN None
    ELSE LET payload_size == read_u16_le(data, 0)
             total_size == 4 + payload_size + calculate_padding(payload_size)
         IN  IF Len(data) < total_size THEN None
             ELSE Parsed([ type |-> "Aac", data |-> SubSeq(data, 5, 4 + payload_size) ],
                         total_size)

\* bc_media.cpp:257 with a payload_size below 4: assign(data + 8, data + 4 +
\* payload_size) is handed a range that ends before it begins, which the language
\* leaves undefined
parse_adpcm_undefined(data) == Len(data) >= 8 /\ read_u16_le(data, 0) < 4

\* Where parse_adpcm_undefined holds this is what a build returns that takes the
\* range for empty; a build that checks the range throws instead (adpcm_underflow).
parse_adpcm(data) ==
    IF Len(data) < 8 THEN None
    ELSE LET payload_size == read_u16_le(data, 0)
         IN  IF Len(data) < 4 + payload_size THEN None
             ELSE Parsed([ type |-> "Adpcm", data |-> SubSeq(data, 9, 4 + payload_size) ],
                         4 + payload_size)

\* the call of parse on data reaches the undefined assign of parse_adpcm
parse_undefined(data) ==
    /\ Len(data) >= 4
    /\ read_u32_le(data, 0) = MAGIC_BCMEDIA_ADPCM
    /\ parse_adpcm_undefined(Drop(data, 4))

\* BcMediaParser::parse
parse(data) ==
    IF Len(data) < 4 THEN None
    ELSE LET magic == read_u32_le(data, 0)
             rest == Drop(data, 4)
             parsed ==
                 IF magic = MAGIC_BCMEDIA_INFO_V1 \/ magic = MAGIC_BCMEDIA_INFO_V2
                 THEN parse_info(rest)
                 ELSE IF magic >= MAGIC_BCMEDIA_IFRAME /\ magic <= MAGIC_BCMEDIA_IFRAME_LAST
                 THEN parse_iframe(rest)
                 ELSE IF magic >= MAGIC_BCMEDIA_PFRAME /\ magic <= MAGIC_BCMEDIA_PFRAME_LAST
                 THEN parse_pframe(rest)
                 ELSE IF magic = MAGIC_BCMEDIA_AAC THEN parse_aac(rest)
                 ELSE IF magic = MAGIC_BCMEDIA_ADPCM THEN parse_adpcm(rest)
                 ELSE None
         IN  IF parsed = None THEN None
             ELSE Parsed(Get(parsed).frame, Get(parsed).consumed + 4)

(***************************************************************************)
(* VideoStream: the handling of received messages (stream.h, stream.cpp).  *)
(***************************************************************************)
\* struct Stats as value-initialised
Stats == [frames_received |-> 0, bytes_received |-> 0, i_frames |-> 0, p_frames |-> 0]

\* the counters after one parsed frame (stream.cpp:209-231)
CountFrame(counters, frame, consumed) ==
    [ frames_received |-> counters.frames_received + 1,
      bytes_received |-> counters.bytes_received + consumed,
      i_frames |-> counters.i_frames + (IF frame.type = "IFrame" THEN 1 ELSE 0),
      p_frames |-> counters.p_frames + (IF frame.type = "PFrame" THEN 1 ELSE 0) ]

\* The while loop of process_media_data (stream.cpp:176-254) from offset on: the
\* offset it stops at, the frames handed to the frame callback and the counters.
\* thrown: the exception of a checking build has left the loop.
RECURSIVE DrainFrom(_, _, _, _)
DrainFrom(buffer, offset, emitted, counters) ==
    LET stop == [offset |-> offset, frames |-> emitted, stats |-> counters, thrown |-> FALSE]
        parsed == parse(Drop(buffer, offset))
    IN  IF offset >= Len(buffer) THEN stop
        ELSE IF Len(buffer) - offset < 4 THEN stop
        ELSE IF ~is_bcmedia_magic(read_u32_le(buffer, offset))
        THEN DrainFrom(buffer, offset + 1, emitted, counters)
        ELSE IF parse_undefined(Drop(buffer, offset)) /\ adpcm_underflow = "throws"
        THEN [stop EXCEPT !.thrown = TRUE]
        ELSE IF parsed = None THEN stop
        ELSE DrainFrom(buffer, offset + Get(parsed).consumed,
                       Append(emitted, Get(parsed).frame),
                       CountFrame(counters, Get(parsed).frame, Get(parsed).consumed))

\* A plausible slip: the buffer is cleared once the drain has stopped.
EraseConsumed_Everything(buffer, offset) == <<>>

\* A plausible slip: the consumed bytes stay in the buffer.
EraseConsumed_Nothing(buffer, offset) == buffer

\* stream.cpp:257-259: the consumed bytes leave the front of the buffer
EraseConsumed(buffer, offset) == IF offset > 0 THEN Drop(buffer, offset) ELSE buffer

\* stream.cpp:256-259 on the buffer and the outcome of the loop; an exception
\* leaves process_media_data before the erase
MediaOutcome(appended, drained) ==
    [ media_buffer |-> IF drained.thrown THEN appended
                       ELSE EraseConsumed(appended, drained.offset),
      frames |-> drained.frames,
      stats |-> drained.stats,
      thrown |-> drained.thrown ]

\* VideoStream::process_media_data
process_media_data(buffer, data, counters) ==
    MediaOutcome(buffer \o data, DrainFrom(buffer \o data, 0, <<>>, counters))

\* "<Extension version="1.1">" and "</Extension>": an Extension document is
\* what lies between them
ExtensionOpen ==
    <<60, 69, 120, 116, 101, 110, 115, 105, 111, 110, 32, 118, 101, 114, 115, 105,
      111, 110, 61, 34, 49, 46, 49, 34, 62>>
ExtensionClose == <<60, 47, 69, 120, 116, 101, 110, 115, 105, 111, 110, 62>>

\* ExtensionXml::parse as far as binaryData: nullopt unless the document is an
\* Extension element; binary_data is set when it holds <binaryData>1</binaryData>
parse_extension(xml) ==
    IF /\ Len(xml) >= Len(ExtensionOpen) + Len(ExtensionClose)
       /\ SubSeq(xml, 1, Len(ExtensionOpen)) = ExtensionOpen
       /\ SubSeq(xml, Len(xml) - Len(ExtensionClose) + 1, Len(xml)) = ExtensionClose
    THEN Some([binary_data |-> IF Find(xml, BinaryDataTag) # npos THEN Some(1) ELSE None])
    ELSE None

\* the test both start() and process_message make of an extension
AnnouncesBinary(extension_data) ==
    /\ extension_data # <<>>
    /\ LET ext == parse_extension(extension_data)
       IN  ext # None /\ Get(ext).binary_data = Some(1)

\* A plausible slip: every received message is taken for a VIDEO message.
IsVideoMessage_AnyId(msg) == TRUE

\* process_message: the filter on the message id (stream.cpp:140)
IsVideoMessage(msg) == msg.header.msg_id = MSG_ID_VIDEO

(***************************************************************************)
(* XML documents (bc_xml.cpp).  libxml2 is modelled by what it recognises  *)
(* among the documents of the model.                                       *)
(***************************************************************************)
\* '<body><Encryption version="1.1"><type>md5</type><nonce>'
EncryptionDocOpen ==
    <<60, 98, 111, 100, 121, 62, 60, 69, 110, 99, 114, 121, 112, 116, 105, 111,
      110, 32, 118, 101, 114, 115, 105, 111, 110, 61, 34, 49, 46, 49, 34, 62, 60,
      116, 121, 112, 101, 62, 109, 100, 53, 60, 47, 116, 121, 112, 101, 62, 60,
      110, 111, 110, 99, 101, 62>>
\* '</nonce></Encryption></body>'
EncryptionDocClose ==
    <<60, 47, 110, 111, 110, 99, 101, 62, 60, 47, 69, 110, 99, 114, 121, 112, 116,
      105, 111, 110, 62, 60, 47, 98, 111, 100, 121, 62>>
\* '<body><DeviceInfo version="1.1"></DeviceInfo></body>'
DeviceInfoDoc ==
    <<60, 98, 111, 100, 121, 62, 60, 68, 101, 118, 105, 99, 101, 73, 110, 102, 111,
      32, 118, 101, 114, 115, 105, 111, 110, 61, 34, 49, 46, 49, 34, 62, 60, 47,
      68, 101, 118, 105, 99, 101, 73, 110, 102, 111, 62, 60, 47, 98, 111, 100, 121,
      62>>
\* '<body><DeviceInfo version="1.1"><resolution><width>x</width></resolution></DeviceInfo></body>'
DeviceInfoBadWidthDoc ==
    <<60, 98, 111, 100, 121, 62, 60, 68, 101, 118, 105, 99, 101, 73, 110, 102, 111,
      32, 118, 101, 114, 115, 105, 111, 110, 61, 34, 49, 46, 49, 34, 62, 60, 114,
      101, 115, 111, 108, 117, 116, 105, 111, 110, 62, 60, 119, 105, 100, 116, 104,
      62, 120, 60, 47, 119, 105, 100, 116, 104, 62, 60, 47, 114, 101, 115, 111,
      108, 117, 116, 105, 111, 110, 62, 60, 47, 68, 101, 118, 105, 99, 101, 73,
      110, 102, 111, 62, 60, 47, 98, 111, 100, 121, 62>>
\* 'not xml'
GarbageDoc ==
    <<110, 111, 116, 32, 120, 109, 108>>
\* '<?xml version="1.0" encoding="UTF-8" ?><body><LoginUser version="1.1"><userName>'
LoginXmlOpen ==
    <<60, 63, 120, 109, 108, 32, 118, 101, 114, 115, 105, 111, 110, 61, 34, 49, 46,
      48, 34, 32, 101, 110, 99, 111, 100, 105, 110, 103, 61, 34, 85, 84, 70, 45,
      56, 34, 32, 63, 62, 60, 98, 111, 100, 121, 62, 60, 76, 111, 103, 105, 110,
      85, 115, 101, 114, 32, 118, 101, 114, 115, 105, 111, 110, 61, 34, 49, 46, 49,
      34, 62, 60, 117, 115, 101, 114, 78, 97, 109, 101, 62>>
\* '</userName><password>'
LoginXmlMid ==
    <<60, 47, 117, 115, 101, 114, 78, 97, 109, 101, 62, 60, 112, 97, 115, 115, 119,
      111, 114, 100, 62>>
\* '</password><userVer>1</userVer></LoginUser><LoginNet version="1.1"><type>LAN</type><udpPort>0</udpPort></LoginNet></body>'
LoginXmlClose ==
    <<60, 47, 112, 97, 115, 115, 119, 111, 114, 100, 62, 60, 117, 115, 101, 114,
      86, 101, 114, 62, 49, 60, 47, 117, 115, 101, 114, 86, 101, 114, 62, 60, 47,
      76, 111, 103, 105, 110, 85, 115, 101, 114, 62, 60, 76, 111, 103, 105, 110,
      78, 101, 116, 32, 118, 101, 114, 115, 105, 111, 110, 61, 34, 49, 46, 49, 34,
      62, 60, 116, 121, 112, 101, 62, 76, 65, 78, 60, 47, 116, 121, 112, 101, 62,
      60, 117, 100, 112, 80, 111, 114, 116, 62, 48, 60, 47, 117, 100, 112, 80, 111,
      114, 116, 62, 60, 47, 76, 111, 103, 105, 110, 78, 101, 116, 62, 60, 47, 98,
      111, 100, 121, 62>>

\* the Encryption document a camera sends for a nonce
EncryptionDoc(nonce) == EncryptionDocOpen \o nonce \o EncryptionDocClose

\* EncryptionXml::parse: the nonce of an Encryption document; nullopt for a
\* document that does not parse, has no Encryption element or an empty nonce.
parse_encryption(xml) ==
    LET n == Len(xml) - Len(EncryptionDocOpen) - Len(EncryptionDocClose)
        nonce == SubSeq(xml, Len(EncryptionDocOpen) + 1, Len(EncryptionDocOpen) + n)
    IN  IF n > 0 /\ xml = EncryptionDoc(nonce) /\ Find(nonce, <<60>>) = npos
        THEN Some([nonce |-> nonce])
        ELSE None

\* DeviceInfoXml::parse: nullopt for a document without a DeviceInfo element
parse_device_info(xml) ==
    IF xml = DeviceInfoDoc THEN Some([version |-> Some(<<49, 46, 49>>)]) ELSE None

\* DeviceInfoXml::parse leaving by the exception of std::stoul: the width of the
\* resolution is not a number (bc_xml.cpp:226-229)
parse_device_info_throws(xml) == xml = DeviceInfoBadWidthDoc

\* DeviceInfoXml{}
EmptyDeviceInfo == [version |-> None]

\* MD5::to_hex_upper_truncated
to_hex_upper_truncated(digest) ==
    LET hex == ToHexUpper(digest)
    IN  IF Len(hex) > 31 THEN SubSeq(hex, 1, 31) ELSE hex

\* BcXmlBuilder::create_login_request
create_login_request(hashed_username, hashed_password) ==
    LoginXmlOpen \o hashed_username \o LoginXmlMid \o hashed_password \o LoginXmlClose

(***************************************************************************)
(* Authenticator (auth.h, auth.cpp): the steps of login() between its      *)
(* blocking calls.                                                         *)
(***************************************************************************)
\* enum class MaxEncryption
MaxEncryption == {"None", "BCEncrypt", "Aes"}

\* struct LoginResult as default-constructed
LoginResult ==
    [ success |-> FALSE, error_message |-> "", device_info |-> None,
      encryption_type |-> Unencrypted ]

\* the message of send_legacy_login
LegacyLoginMessage(msg_num, max_enc) ==
    [ header |-> [ BcHeader(MSG_ID_LOGIN, msg_num, MSG_CLASS_LEGACY)
                     EXCEPT !.response_code =
                                CASE max_enc = "None" -> ENC_REQ_NONE
                                  [] max_enc = "BCEncrypt" -> ENC_REQ_BC
                                  [] max_enc = "Aes" -> ENC_REQ_AES,
                            !.body_len = 0 ],
      extension_data |-> <<>>,
      payload_data |-> <<>> ]

\* the loop test of both receive phases: the message that ends the waiting
IsLoginReply_AnyMessage(msg) == TRUE

IsLoginReply(msg) == msg.header.msg_id = MSG_ID_LOGIN

\* A plausible slip: an unknown low byte selects BcXor.
NegotiationOf_UnknownAsBc(msg) ==
    LET resp == msg.header.response_code
        resp_high == (resp \div 256) % 256
        resp_low == resp % 256
        type == IF resp_high = 221
                THEN CASE resp_low = 0 -> Unencrypted
                       [] resp_low = 1 -> BCEncrypt
                       [] resp_low = 2 -> Aes
                       [] resp_low = 18 -> FullAes
                       [] OTHER -> BCEncrypt
                ELSE Unencrypted
        payload_data == IF type # Unencrypted /\ msg.payload_data # <<>>
                        THEN decrypt(BcCrypto(BCEncrypt, <<>>), 0, msg.payload_data)
                        ELSE msg.payload_data
        enc == IF payload_data # <<>> THEN parse_encryption(payload_data) ELSE None
    IN  [ type |-> type, nonce |-> IF enc # None THEN Get(enc).nonce ELSE <<>> ]

\* receive_encryption_negotiation from the message the loop broke on
NegotiationOf(msg) ==
    LET resp == msg.header.response_code
        resp_high == (resp \div 256) % 256
        resp_low == resp % 256
        type == IF resp_high = 221
                THEN CASE resp_low = 0 -> Unencrypted
                       [] resp_low = 1 -> BCEncrypt
                       [] resp_low = 2 -> Aes
                       [] resp_low = 18 -> FullAes
                       [] OTHER -> Unencrypted
                ELSE Unencrypted
        payload_data == IF type # Unencrypted /\ msg.payload_data # <<>>
                        THEN decrypt(BcCrypto(BCEncrypt, <<>>), 0, msg.payload_data)
                        ELSE msg.payload_data
        enc == IF payload_data # <<>> THEN parse_encryption(payload_data) ELSE None
    IN  [ type |-> type, nonce |-> IF enc # None THEN Get(enc).nonce ELSE <<>> ]

\* A plausible slip: the negotiated cipher is installed before the login message.
LoginCipher_NegotiatedAtOnce(current, type, key) ==
    CASE type = BCEncrypt -> BcCrypto(BCEncrypt, <<>>)
      [] type \in {Aes, FullAes} -> BcCrypto(type, key)
      [] OTHER -> current

\* login(): the cipher in force for the login message
LoginCipher(current, type, key) ==
    CASE type = BCEncrypt -> BcCrypto(BCEncrypt, <<>>)
      [] type \in {Aes, FullAes} -> BcCrypto(BCEncrypt, <<>>)
      [] OTHER -> current

\* the message of send_modern_login
ModernLoginMessage(msg_num, username, password, nonce) ==
    LET hashed_username == to_hex_upper_truncated(MD5Hash(username \o nonce))
        hashed_password == to_hex_upper_truncated(MD5Hash(password \o nonce))
        xml == create_login_request(hashed_username, hashed_password)
    IN  create_with_payload(MSG_ID_LOGIN, msg_num, xml, MSG_CLASS_MODERN_24)

\* A plausible slip: the response code of the LOGIN response is not looked at.
LoginAccepted_AnyCode(msg) == TRUE

\* receive_login_response: the test of the response code
LoginAccepted(msg) == msg.header.response_code = RESPONSE_CODE_OK

\* A plausible slip: a payload that does not parse gives an empty device info.
DeviceInfoOf_UnparsedAccepted(msg) ==
    IF ~LoginAccepted(msg) THEN None
    ELSE IF msg.payload_data # <<>> /\ parse_device_info(msg.payload_data) # None
    THEN parse_device_info(msg.payload_data)
    ELSE Some(EmptyDeviceInfo)

\* receive_login_response from the message the loop broke on
DeviceInfoOf(msg) ==
    IF ~LoginAccepted(msg) THEN None
    ELSE IF msg.payload_data # <<>> THEN parse_device_info(msg.payload_data)
    ELSE Some(EmptyDeviceInfo)

\* receive_login_response left by the exception of DeviceInfoXml::parse
DeviceInfoThrows(msg) ==
    /\ LoginAccepted(msg)
    /\ msg.payload_data # <<>>
    /\ parse_device_info_throws(msg.payload_data)

\* A plausible slip: the promotion installs the selective cipher for both.
PromotedCipher_AlwaysAes(current, use_aes, use_full, key) ==
    IF use_aes THEN BcCrypto(Aes, key) ELSE current

\* login(): the cipher in force once the login has succeeded
PromotedCipher(current, use_aes, use_full, key) ==
    IF use_aes
    THEN IF use_full THEN BcCrypto(FullAes, key) ELSE BcCrypto(Aes, key)
    ELSE current

\* Authenticator::Authenticator: login() has not been called
AuthIdle ==
    /\ pc = "idle"
    /\ credentials = [username |-> <<>>, password |-> <<>>]
    /\ max_encryption = "Aes"
    /\ login_msg_num = 0
    /\ attempts = 0
    /\ negotiation = None
    /\ aes_key = [i \in 1..16 |-> 0]
    /\ use_aes_after_login = FALSE
    /\ use_full_aes = FALSE
    /\ login_response = None
    /\ result = LoginResult
    /\ phase_log = <<>>

\* VideoStream::VideoStream: start() has not been called
StreamIdle ==
    /\ stream_pc = "idle"
    /\ thread_pc = "none"
    /\ streaming = FALSE
    /\ media_buffer = <<>>
    /\ stats = Stats
    /\ stream_info_received = FALSE
    /\ stream_info = None
    /\ stream_binary_nums = {}
    /\ frames = <<>>
    /\ media_records = <<>>
    /\ media_sent = 0

\* a thread that is not inside receive_message: fd is the descriptor its last
\* wait_for_data polled, parsed what BcHeader::deserialize gave it, result what
\* the call returned; overlapped and cleared record that disconnect() began, and
\* that it cleared recv_buffer_, while the call was under way; stale is what the
\* storage of recv_buffer_ held when it was cleared
NoCall ==
    [ pc |-> "idle", fd |-> -1, parsed |-> None, result |-> None,
      overlapped |-> FALSE, cleared |-> FALSE, stale |-> <<>> ]

\* connect() has succeeded and nobody is inside the connection
SocketConnected ==
    /\ socket_fd = 0
    /\ fd_open = TRUE
    /\ peer_closed = FALSE
    /\ rx = NoCall
    /\ disc_pc = "idle"
    /\ hazards = {}

\* nothing has been called yet
HistoryEmpty ==
    /\ last_failure = ""
    /\ calls_after_stop = 0
    /\ other_stop = "idle"
    /\ num_calls = 0
    /\ last_num = 0
    /\ prev_num = 0
    /\ cipher_log = <<>>
    /\ call_args = None
    /\ call_result = None
    /\ media_thrown = FALSE

\* libstdc++ and libc++ answer a range that ends before it begins with
\* std::length_error
CheckedBuild == adpcm_underflow = "throws"

(***************************************************************************)
(* Transport actions.                                                      *)
(***************************************************************************)
\* Connection::Connection, connect(): a fresh connected transport, but for crypto_
FreshTransport ==
    /\ send_offset = 0
    /\ recv_offset = 0
    /\ recv_buffer = <<>>
    /\ binary_mode_nums = {}
    /\ msg_num_counter = 0
    /\ wire = <<>>
    /\ sock = <<>>
    /\ sent = <<>>
    /\ cam_sent = <<>>
    /\ recv_log = <<>>
    /\ last_ok = TRUE

ConnInit ==
    /\ crypto = BcCrypto(Unencrypted, <<>>)
    /\ FreshTransport
    /\ AuthIdle
    /\ StreamIdle
    /\ SocketConnected
    /\ HistoryEmpty
    /\ CheckedBuild
    /\ aes_ctx = None

\* the camera frames message m and writes it
CameraSend(m) ==
    /\ cam_sent' = Append(cam_sent, m)
    /\ wire' = wire \o CamWire(m, crypto)
    /\ UNCHANGED <<connVars, sock, sent, recv_log, last_ok, authVars, extVars>>
    /\ UNCHANGED <<stream_pc, thread_pc, streaming, media_buffer, stats, stream_info_received,
                   stream_info, stream_binary_nums, frames>>

\* the first k bytes in flight reach the client's socket
Deliver(k) ==
    /\ k \in 1..Len(wire)
    /\ sock' = sock \o SubSeq(wire, 1, k)
    /\ wire' = Drop(wire, k)
    /\ UNCHANGED <<connVars, sent, histVars, authVars, streamVars, extVars>>

\* The effect of one Connection::receive_message call with result r on the
\* connection (connection.cpp:339-341, but for recv_offset_) and on the history.
ReceiveEffect(r) ==
    /\ recv_buffer' = r.recv_buffer
    /\ sock' = r.sock
    /\ binary_mode_nums' = r.binary_mode_nums
    /\ last_ok' = (r.msg # None)
    /\ recv_log' = IF r.msg = None THEN recv_log
                   ELSE Append(recv_log, [ msg |-> Get(r.msg),
                                           nums_before |-> binary_mode_nums ])

\* a caller outside login and streaming calls receive_message once
Receive ==
    /\ LET r == receive_message(recv_buffer, sock, crypto, binary_mode_nums)
       IN  ReceiveEffect(r) /\ recv_offset' = recv_offset + r.body_len
    /\ UNCHANGED <<crypto, send_offset, msg_num_counter, wire, sent, cam_sent, authVars,
                   streamVars, extVars>>

(***************************************************************************)
(* SpecRecv: a logged-in connection receiving whole messages.              *)
(***************************************************************************)
RecvInit ==
    /\ crypto \in SessionCiphers
    /\ FreshTransport
    /\ AuthIdle
    /\ StreamIdle
    /\ SocketConnected
    /\ HistoryEmpty
    /\ CheckedBuild
    /\ aes_ctx = None

RecvCameraSend ==
    /\ Len(cam_sent) < MaxCamMsgs
    /\ wire = <<>> /\ sock = <<>> /\ recv_buffer = <<>>
    /\ \E m \in RecvCamMessages : CameraSend(m)
    /\ UNCHANGED <<media_records, media_sent>>

RecvDeliver == wire # <<>> /\ Deliver(Len(wire))

RecvNext == RecvCameraSend \/ RecvDeliver \/ Receive

SpecRecv == RecvInit /\ [][RecvNext]_vars

(***************************************************************************)
(* Claims about the receive path, checked under SpecRecv.  Entry i of      *)
(* recv_log is the message returned for entry i of cam_sent.               *)
(***************************************************************************)
Received == 1..Len(recv_log)

HasBinaryTag(ext) == Find(ext, BinaryDataTag) # npos

\* the encryptLen the camera announced in message m, if any
Announces(m, N) == Find(m.ext, EncryptLenTag(N)) # npos
AnnouncesEncryptLen(m) == \E N \in EncryptLens : Announces(m, N)

\* is_binary of the spec for received message i
IsBinaryMsg(i) ==
    HasBinaryTag(cam_sent[i].ext) \/ cam_sent[i].header.msg_num \in recv_log[i].nums_before

Decrypted(i) ==
    /\ recv_log[i].msg.payload_data
         = decrypt(crypto, cam_sent[i].header.channel_id, cam_sent[i].payload)
    /\ recv_log[i].msg.payload_data # cam_sent[i].payload

Untouched(i) == recv_log[i].msg.payload_data = cam_sent[i].payload

\* C5: once a message with msg_num n has carried an Extension with
\* <binaryData>1</binaryData>, every later message with msg_num n is delivered
\* with its payload not decrypted under BcXor and Aes.
C5_StickyBinary ==
    \A i, j \in Received :
        ( /\ i < j
          /\ crypto.type \in {BCEncrypt, Aes}
          /\ HasBinaryTag(cam_sent[i].ext)
          /\ cam_sent[j].header.msg_num = cam_sent[i].header.msg_num )
        => Untouched(j)

\* C6: for a received message with payload_offset > 0 the payload is decrypted
\* exactly as the table of (cipher, is_binary) says: Unencrypted never; BcXor and
\* Aes if and only if not binary; FullAes all of it when not binary, none of it
\* when binary with no encryptLen announced.
C6_DecryptTable ==
    \A i \in Received :
        ( /\ cam_sent[i].header.payload_offset # None
          /\ Get(cam_sent[i].header.payload_offset) > 0 )
        => CASE crypto.type = Unencrypted -> Untouched(i)
             [] crypto.type \in {BCEncrypt, Aes} ->
                    IF IsBinaryMsg(i) THEN Untouched(i) ELSE Decrypted(i)
             [] crypto.type = FullAes ->
                    /\ ~IsBinaryMsg(i) => Decrypted(i)
                    /\ (IsBinaryMsg(i) /\ ~AnnouncesEncryptLen(cam_sent[i])) => Untouched(i)

\* C7: under FullAes a binary message announcing encryptLen = N is delivered
\* with exactly its first min(N, len) payload bytes passed through the cipher and
\* the rest unchanged, at the length of the wire payload.
C7_EncryptLenSplit ==
    \A i \in Received : \A N \in EncryptLens :
        ( /\ crypto.type = FullAes
          /\ IsBinaryMsg(i)
          /\ Announces(cam_sent[i], N) )
        => LET p == cam_sent[i].payload
               k == Min(N, Len(p))
               got == recv_log[i].msg.payload_data
           IN  /\ Len(got) = Len(p)
               /\ SubSeq(got, 1, k) = aes_decrypt(crypto.key, SubSeq(p, 1, k))
               /\ SubSeq(got, k + 1, Len(p)) = SubSeq(p, k + 1, Len(p))

\* a FullAes binary message with a proper encrypted prefix has been delivered
C7_Witness ==
    \E i \in Received :
        /\ crypto.type = FullAes
        /\ IsBinaryMsg(i)
        /\ Announces(cam_sent[i], 2)
        /\ Len(cam_sent[i].payload) > 2
        /\ SubSeq(recv_log[i].msg.payload_data, 1, 2) # SubSeq(cam_sent[i].payload, 1, 2)

(***************************************************************************)
(* SpecFrame: an unencrypted connection; the camera frames messages at any *)
(* time and their bytes reach the socket in pieces.                        *)
(***************************************************************************)
\* a message framed with the byte-reversed magic
WithReversedMagic(m) == [m EXCEPT !.header.magic = MAGIC_HEADER_REV]

FrameCamMessages ==
    { CamNoExt(MSG_ID_MOTION, 1, MSG_CLASS_LEGACY, <<>>),
      CamNoExt(MSG_ID_MOTION, 1, MSG_CLASS_MODERN_20, <<5, 6, 7, 8, 9>>),
      CamNoExt(MSG_ID_LOGIN, 2, MSG_CLASS_MODERN_24, <<>>),
      CamWithExt(MSG_ID_VIDEO, 2, PlainExt, <<1, 2>>),
      WithReversedMagic(CamNoExt(MSG_ID_VIDEO, 1, MSG_CLASS_MODERN_24_ALT, CamPayload)) }

FrameCameraSend ==
    /\ Len(cam_sent) < MaxFrameMsgs
    /\ \E m \in FrameCamMessages : CameraSend(m)
    /\ UNCHANGED <<media_records, media_sent>>

FrameDeliver == \E k \in {ChunkSmall, ChunkLarge, Len(wire)} : Deliver(k)

FrameNext == FrameCameraSend \/ FrameDeliver \/ Receive

SpecFrame == ConnInit /\ [][FrameNext]_vars

RECURSIVE WireOfFrom(_, _)
\* the bytes of the camera's messages from the i-th on
WireOfFrom(msgs, i) ==
    IF i > Len(msgs) THEN <<>> ELSE CamWire(msgs[i], crypto) \o WireOfFrom(msgs, i + 1)

\* C8: the messages returned by successive receive_message calls are the framed
\* messages of the byte stream, in order, none lost, duplicated or changed; what
\* is buffered and what is still to arrive are exactly the bytes of the messages
\* not yet returned, whatever the pieces the bytes arrived in and whichever calls
\* timed out on a partial message.
C8_FramingPreserved ==
    /\ Len(recv_log) <= Len(cam_sent)
    /\ \A i \in Received :
          /\ recv_log[i].msg.header = cam_sent[i].header
          /\ recv_log[i].msg.extension_data = cam_sent[i].ext
          /\ recv_log[i].msg.payload_data = cam_sent[i].payload
    /\ recv_buffer \o sock \o wire = WireOfFrom(cam_sent, Len(recv_log) + 1)

\* a call has timed out with part of the second message buffered, and so did not
\* return it
C8_Witness ==
    /\ Len(recv_log) = 1
    /\ ~last_ok
    /\ recv_buffer # <<>>
    /\ Len(recv_buffer) < Len(WireOfFrom(cam_sent, 2))

(***************************************************************************)
(* SpecLogin: one call of Authenticator::login on a fresh connection.  The *)
(* camera answers while the client waits, one whole message at a time.     *)
(***************************************************************************)
\* "admin"
LoginUsername == <<97, 100, 109, 105, 110>>

\* a LOGIN message of the camera with the given class, response code and payload
CamLogin(class, code, payload) ==
    LET m == CamNoExt(MSG_ID_LOGIN, 1, class, payload)
    IN  [m EXCEPT !.header.response_code = code]

\* 0xDD05: a negotiation code of the 0xDD family the client does not know
ENC_RESP_UNKNOWN == ENC_RESP_BC + 4

\* what the camera may send after the legacy login: a negotiation response with
\* its nonce document, a LOGIN message whose code is not of the 0xDD family, or
\* an unsolicited message
NegotiationCamMessages ==
    { CamLogin(MSG_CLASS_LEGACY, code, EncryptionDoc(SessionNonce)) :
        code \in {ENC_RESP_NONE, RESPONSE_CODE_OK} }
    \cup { CamLogin(MSG_CLASS_LEGACY, code, bc_encrypt_decrypt(0, EncryptionDoc(SessionNonce))) :
             code \in {ENC_RESP_BC, ENC_RESP_AES, ENC_RESP_FULL_AES, ENC_RESP_UNKNOWN} }
    \cup { CamLogin(MSG_CLASS_LEGACY, ENC_RESP_AES, bc_encrypt_decrypt(0, GarbageDoc)),
           CamNoExt(MSG_ID_MOTION, 1, MSG_CLASS_MODERN_24, CamPayload) }

\* what the camera may send after the modern login, its payloads under cipher c
ResponseCamMessages(c) ==
    { CamLogin(MSG_CLASS_MODERN_24, RESPONSE_CODE_OK, encrypt(c, 0, DeviceInfoDoc)),
      CamLogin(MSG_CLASS_MODERN_24, RESPONSE_CODE_OK, <<>>),
      CamLogin(MSG_CLASS_MODERN_24, RESPONSE_CODE_OK, encrypt(c, 0, GarbageDoc)),
      CamLogin(MSG_CLASS_MODERN_24, RESPONSE_CODE_OK, encrypt(c, 0, DeviceInfoBadWidthDoc)),
      CamLogin(MSG_CLASS_MODERN_24, RESPONSE_CODE_BAD_REQUEST, <<>>),
      CamLogin(MSG_CLASS_MODERN_24, RESPONSE_CODE_BAD_REQUEST, encrypt(c, 0, DeviceInfoDoc)),
      CamNoExt(MSG_ID_MOTION, 1, MSG_CLASS_MODERN_24, CamPayload) }

LoginCameraSend ==
    /\ wire = <<>> /\ sock = <<>> /\ recv_buffer = <<>>
    /\ \/ pc = "recv_negotiation" /\ \E m \in NegotiationCamMessages : CameraSend(m)
       \/ pc = "recv_login" /\ \E m \in ResponseCamMessages(crypto) : CameraSend(m)
    /\ UNCHANGED <<media_records, media_sent>>

LoginDeliver == wire # <<>> /\ Deliver(Len(wire))

\* A plausible slip: a failed login returns a fresh LoginResult.
LoginFails_FreshResult(message) ==
    /\ pc' = "done"
    /\ result' = [ success |-> FALSE, error_message |-> message, device_info |-> None,
                   encryption_type |-> Unencrypted ]

\* login() returning a failed LoginResult
LoginFails(message) ==
    /\ pc' = "done"
    /\ result' = [result EXCEPT !.error_message = message]

\* A plausible slip: the send offset is not advanced.
SendMessage_OffsetKept(msg) ==
    /\ sent' = Append(sent, send_message_bytes(msg, crypto))
    /\ send_offset' = send_offset

\* Connection::send_message of msg when send_raw succeeds
SendMessage(msg) ==
    /\ sent' = Append(sent, send_message_bytes(msg, crypto))
    /\ send_offset' = send_offset + Len(BcMessage_serialize(msg)) - header_size(msg.header)

\* login() up to the first receive (auth.cpp:9-29): take a message number, send
\* the legacy login
LoginSendLegacy ==
    /\ pc = "idle"
    /\ \E password \in {SessionPassword}, max_enc \in MaxEncryption, sent_ok \in BOOLEAN :
          /\ credentials' = [username |-> LoginUsername, password |-> password]
          /\ max_encryption' = max_enc
          /\ msg_num_counter' = (msg_num_counter + 1) % 65536
          /\ login_msg_num' = msg_num_counter'
          /\ result' = [LoginResult EXCEPT !.error_message =
                           IF sent_ok THEN "" ELSE "Failed to send legacy login request"]
          /\ IF sent_ok
             THEN /\ SendMessage(LegacyLoginMessage(login_msg_num', max_enc))
                  /\ pc' = "recv_negotiation"
             ELSE /\ pc' = "done"
                  /\ UNCHANGED <<sent, send_offset>>
    /\ attempts' = 0
    /\ phase_log' = <<>>
    /\ UNCHANGED <<crypto, recv_offset, recv_buffer, binary_mode_nums, wire, sock, histVars,
                   negotiation, aes_key, use_aes_after_login, use_full_aes, login_response,
                   streamVars, extVars>>

\* login() from the negotiation neg to the sending of the modern login
\* (auth.cpp:36-70): the login cipher is installed and the offsets are reset
LoginNegotiated(neg) ==
    LET key == derive_aes_key(credentials.password, neg.nonce)
    IN  /\ negotiation' = Some(neg)
        /\ result' = [result EXCEPT !.encryption_type = neg.type]
        /\ crypto' = LoginCipher(crypto, neg.type, key)
        /\ aes_key' = IF neg.type \in {Aes, FullAes} THEN key ELSE aes_key
        /\ use_aes_after_login' = (neg.type \in {Aes, FullAes})
        /\ use_full_aes' = (neg.type = FullAes)
        /\ send_offset' = 0
        /\ recv_offset' = 0
        /\ pc' = "send_modern"
        /\ UNCHANGED attempts

\* one turn of the loop of receive_encryption_negotiation on the outcome r of
\* its receive_message call (auth.cpp:138-155)
NegotiationTurn(r) ==
    /\ ReceiveEffect(r)
    /\ phase_log' = Append(phase_log, r.msg)
    /\ IF r.msg = None
       THEN /\ LoginFails("Failed to receive encryption negotiation")
            /\ recv_offset' = recv_offset + r.body_len
            /\ UNCHANGED <<crypto, send_offset, attempts, negotiation, aes_key,
                           use_aes_after_login, use_full_aes>>
       ELSE IF IsLoginReply(Get(r.msg))
       THEN LoginNegotiated(NegotiationOf(Get(r.msg)))
       ELSE /\ attempts' = attempts + 1
            /\ recv_offset' = recv_offset + r.body_len
            /\ IF attempts' < LOGIN_RECV_ATTEMPTS
               THEN UNCHANGED <<pc, result>>
               ELSE LoginFails("Failed to receive encryption negotiation")
            /\ UNCHANGED <<crypto, send_offset, negotiation, aes_key,
                           use_aes_after_login, use_full_aes>>

\* One turn of the loop of receive_encryption_negotiation and, when it ends the
\* loop, login() up to the sending of the modern login (auth.cpp:135-227, 29-70).
LoginRecvNegotiation ==
    /\ pc = "recv_negotiation"
    /\ NegotiationTurn(receive_message(recv_buffer, sock, crypto, binary_mode_nums))
    /\ UNCHANGED <<msg_num_counter, wire, sent, cam_sent, credentials, max_encryption,
                   login_msg_num, login_response,
                   streamVars, extVars>>

\* login() sending the modern login (auth.cpp:72-80, 229-254)
LoginSendModern ==
    /\ pc = "send_modern"
    /\ \E sent_ok \in BOOLEAN :
          IF sent_ok
          THEN /\ SendMessage(ModernLoginMessage(login_msg_num, credentials.username,
                                                 credentials.password, Get(negotiation).nonce))
               /\ pc' = "recv_login"
               /\ attempts' = 0
               /\ phase_log' = <<>>
               /\ UNCHANGED result
          ELSE /\ LoginFails("Failed to send modern login request")
               /\ UNCHANGED <<sent, send_offset, attempts, phase_log>>
    /\ UNCHANGED <<crypto, recv_offset, recv_buffer, binary_mode_nums, msg_num_counter,
                   wire, sock, histVars, credentials, max_encryption, login_msg_num,
                   negotiation, aes_key, use_aes_after_login, use_full_aes, login_response,
                   streamVars, extVars>>

\* login() from what receive_login_response returned for the message of body_len
\* bytes its loop broke on, to its return (auth.cpp:80-105)
LoginResponded(device_info, body_len) ==
    IF device_info = None
    THEN /\ LoginFails("Login failed - invalid credentials or connection error")
         /\ recv_offset' = recv_offset + body_len
         /\ UNCHANGED <<crypto, send_offset>>
    ELSE /\ crypto' = PromotedCipher(crypto, use_aes_after_login, use_full_aes, aes_key)
         /\ send_offset' = IF use_aes_after_login THEN 0 ELSE send_offset
         /\ recv_offset' = IF use_aes_after_login THEN 0 ELSE recv_offset + body_len
         /\ result' = [result EXCEPT !.success = TRUE, !.device_info = device_info]
         /\ pc' = "done"

\* login() left by an exception of receive_login_response, which nothing in
\* login() catches (auth.cpp:80): no LoginResult is returned
LoginThrows(body_len) ==
    /\ pc' = "thrown"
    /\ recv_offset' = recv_offset + body_len
    /\ UNCHANGED <<crypto, send_offset, result>>

\* one turn of the loop of receive_login_response on the outcome r of its
\* receive_message call (auth.cpp:259-276)
ResponseTurn(r) ==
    /\ ReceiveEffect(r)
    /\ phase_log' = Append(phase_log, r.msg)
    /\ IF r.msg = None
       THEN /\ LoginFails("Login failed - invalid credentials or connection error")
            /\ recv_offset' = recv_offset + r.body_len
            /\ UNCHANGED <<crypto, send_offset, attempts, login_response>>
       ELSE IF IsLoginReply(Get(r.msg))
       THEN /\ login_response' = r.msg
            /\ UNCHANGED attempts
            /\ IF DeviceInfoThrows(Get(r.msg))
               THEN LoginThrows(r.body_len)
               ELSE LoginResponded(DeviceInfoOf(Get(r.msg)), r.body_len)
       ELSE /\ attempts' = attempts + 1
            /\ recv_offset' = recv_offset + r.body_len
            /\ IF attempts' < LOGIN_RECV_ATTEMPTS
               THEN UNCHANGED <<pc, result>>
               ELSE LoginFails("Login failed - invalid credentials or connection error")
            /\ UNCHANGED <<crypto, send_offset, login_response>>

\* One turn of the loop of receive_login_response and, when it ends the loop,
\* login() to its return (auth.cpp:256-306, 80-105).
LoginRecvResponse ==
    /\ pc = "recv_login"
    /\ ResponseTurn(receive_message(recv_buffer, sock, crypto, binary_mode_nums))
    /\ UNCHANGED <<msg_num_counter, wire, sent, cam_sent, credentials, max_encryption,
                   login_msg_num, negotiation, aes_key, use_aes_after_login, use_full_aes,
                   streamVars, extVars>>

LoginNext ==
    \/ LoginCameraSend
    \/ LoginDeliver
    \/ LoginSendLegacy
    \/ LoginRecvNegotiation
    \/ LoginSendModern
    \/ LoginRecvResponse

SpecLogin == ConnInit /\ [][LoginNext]_vars

(***************************************************************************)
(* Claims about the login, checked under SpecLogin.                        *)
(***************************************************************************)
Negotiated == Get(negotiation).type

ResponseCode == Get(login_response).header.response_code

LastOf(log) == log[Len(log)]

\* C1: from the processing of the negotiation response until a LOGIN response
\* with code 200 has been received, the connection's cipher is BcXor whenever
\* BcXor, Aes or FullAes was negotiated; an Aes or FullAes cipher is in force only
\* once login has returned on a 200 response, after the modern login was sent.
C1_LoginCipherIsBcXor ==
    /\ ( /\ negotiation # None
         /\ Negotiated \in {BCEncrypt, Aes, FullAes}
         /\ \/ pc \in {"send_modern", "recv_login"}
            \/ pc = "done" /\ (login_response = None \/ ResponseCode # RESPONSE_CODE_OK) )
       => crypto = BcCrypto(BCEncrypt, <<>>)
    /\ crypto.type \in {Aes, FullAes}
       => /\ pc = "done"
          /\ login_response # None
          /\ ResponseCode = RESPONSE_CODE_OK
          /\ Len(sent) = 2

\* Aes was negotiated and the client waits for the login response under BcXor
C1_Witness ==
    /\ pc = "recv_login"
    /\ Negotiated = Aes
    /\ Len(sent) = 2
    /\ crypto.type = BCEncrypt

\* C2: when login succeeds with Aes or FullAes negotiated, the cipher in force is
\* of exactly that type with the key derive_aes_key(password, nonce), and the
\* LoginResult reports the same type.
C2_PromotedCipher ==
    ( /\ pc = "done"
      /\ result.success
      /\ Negotiated \in {Aes, FullAes} )
    => /\ crypto = BcCrypto(Negotiated,
                            derive_aes_key(credentials.password, Get(negotiation).nonce))
       /\ result.encryption_type = Negotiated

\* a login has succeeded with FullAes negotiated and a nonce received
C2_Witness ==
    /\ pc = "done"
    /\ result.success
    /\ Negotiated = FullAes
    /\ Get(negotiation).nonce = SessionNonce

\* C3: when the LOGIN response to the modern login carries a response code other
\* than 200, login returns a failure without device info, and no Aes or FullAes
\* cipher is in force.
C3_RejectedLoginFails ==
    ( /\ pc = "done"
      /\ login_response # None
      /\ ResponseCode # RESPONSE_CODE_OK )
    => /\ ~result.success
       /\ result.device_info = None
       /\ crypto.type \notin {Aes, FullAes}

\* a login with Aes negotiated has been answered with code 400
C3_Witness ==
    /\ pc = "done"
    /\ login_response # None
    /\ ResponseCode = RESPONSE_CODE_BAD_REQUEST
    /\ Negotiated = Aes

\* the message entry e of phase_log holds is one the loop skips
Skipped(e) == e # None /\ Get(e).header.msg_id # MSG_ID_LOGIN

\* C4: a receive phase makes at most five receive calls; every message before
\* the one it ends on is a non-LOGIN message that was discarded, so the first
\* LOGIN message is the one used; login fails when a receive returns nothing and
\* when five non-LOGIN messages arrive in a row, and goes on otherwise.
C4_ReceivePhase ==
    /\ Len(phase_log) <= LOGIN_RECV_ATTEMPTS
    /\ \A i \in 1..(Len(phase_log) - 1) : Skipped(phase_log[i])
    /\ pc \in {"recv_negotiation", "recv_login"}
       => /\ \A i \in 1..Len(phase_log) : Skipped(phase_log[i])
          /\ Len(phase_log) < LOGIN_RECV_ATTEMPTS
    /\ (phase_log # <<>> /\ LastOf(phase_log) = None)
       => pc = "done" /\ ~result.success
    /\ (Len(phase_log) = LOGIN_RECV_ATTEMPTS /\ Skipped(LastOf(phase_log)))
       => pc = "done" /\ ~result.success
    /\ pc = "send_modern"
       => /\ LastOf(phase_log) # None
          /\ Get(LastOf(phase_log)).header.msg_id = MSG_ID_LOGIN
          /\ negotiation = Some(NegotiationOf(Get(LastOf(phase_log))))
    /\ (pc = "done" /\ result.success)
       => LastOf(phase_log) = login_response

\* a login has succeeded although four unsolicited messages came before the
\* LOGIN response
C4_Witness ==
    /\ pc = "done"
    /\ result.success
    /\ Len(phase_log) = LOGIN_RECV_ATTEMPTS
    /\ \A i \in 1..(LOGIN_RECV_ATTEMPTS - 1) : Skipped(phase_log[i])

(***************************************************************************)
(* SpecStream: one streaming session on a logged-in connection: start(),   *)
(* the receive thread, stop().  The camera answers the start request and   *)
(* then sends its media stream in VIDEO messages, cut at any byte.         *)
(***************************************************************************)
\* BcXmlBuilder::create_preview_request(0, 0, "mainStream"):
\* <?xml version="1.0" encoding="UTF-8" ?><body><Preview version="1.1"><channelId>0</channelId><handle>0</handle><streamType>mainStream</streamType></Preview></body>
PreviewRequestXml ==
    <<60, 63, 120, 109, 108, 32, 118, 101, 114, 115, 105, 111, 110, 61, 34, 49, 46,
      48, 34, 32, 101, 110, 99, 111, 100, 105, 110, 103, 61, 34, 85, 84, 70, 45,
      56, 34, 32, 63, 62, 60, 98, 111, 100, 121, 62, 60, 80, 114, 101, 118, 105,
      101, 119, 32, 118, 101, 114, 115, 105, 111, 110, 61, 34, 49, 46, 49, 34, 62,
      60, 99, 104, 97, 110, 110, 101, 108, 73, 100, 62, 48, 60, 47, 99, 104, 97,
      110, 110, 101, 108, 73, 100, 62, 60, 104, 97, 110, 100, 108, 101, 62, 48, 60,
      47, 104, 97, 110, 100, 108, 101, 62, 60, 115, 116, 114, 101, 97, 109, 84,
      121, 112, 101, 62, 109, 97, 105, 110, 83, 116, 114, 101, 97, 109, 60, 47,
      115, 116, 114, 101, 97, 109, 84, 121, 112, 101, 62, 60, 47, 80, 114, 101,
      118, 105, 101, 119, 62, 60, 47, 98, 111, 100, 121, 62>>

\* the records of the camera's media stream, each with the frame it encodes;
\* Junk is bytes that belong to no record
InfoRecord ==
    [ bytes |-> write_u32_le(MAGIC_BCMEDIA_INFO_V1) \o write_u32_le(32)
                  \o write_u32_le(640) \o write_u32_le(480) \o <<0, 25>>
                  \o <<24, 1, 2, 3, 4, 5>> \o <<24, 1, 2, 3, 4, 6>> \o <<0, 0, 0, 0, 0, 0>>,
      frame |-> Some([ type |-> "Info", video_width |-> 640, video_height |-> 480,
                       fps |-> 25, start |-> <<24, 1, 2, 3, 4, 5>>,
                       end |-> <<24, 1, 2, 3, 4, 6>> ]) ]

IFrameRecord ==
    [ bytes |-> write_u32_le(MAGIC_BCMEDIA_IFRAME) \o <<72, 50, 54, 53>>
                  \o write_u32_le(3) \o write_u32_le(4) \o write_u32_le(1000)
                  \o write_u32_le(0) \o write_u32_le(77) \o <<11, 12, 13>>
                  \o <<0, 0, 0, 0, 0>>,
      frame |-> Some([ type |-> "IFrame", codec |-> "H265", microseconds |-> 1000,
                       posix_time |-> Some(77), data |-> <<11, 12, 13>> ]) ]

PFrameRecord ==
    [ bytes |-> write_u32_le(MAGIC_BCMEDIA_PFRAME_LAST) \o <<72, 50, 54, 52>>
                  \o write_u32_le(8) \o write_u32_le(0) \o write_u32_le(2000)
                  \o write_u32_le(0) \o <<21, 22, 23, 24, 25, 26, 27, 28>>,
      frame |-> Some([ type |-> "PFrame", codec |-> "H264", microseconds |-> 2000,
                       data |-> <<21, 22, 23, 24, 25, 26, 27, 28>> ]) ]

AacRecord ==
    [ bytes |-> write_u32_le(MAGIC_BCMEDIA_AAC) \o write_u16_le(2) \o write_u16_le(2)
                  \o <<31, 32>> \o <<0, 0, 0, 0, 0, 0>>,
      frame |-> Some([ type |-> "Aac", data |-> <<31, 32>> ]) ]

AdpcmRecord ==
    [ bytes |-> write_u32_le(MAGIC_BCMEDIA_ADPCM) \o write_u16_le(6) \o write_u16_le(6)
                  \o <<0, 1>> \o write_u16_le(2) \o <<41, 42>>,
      frame |-> Some([ type |-> "Adpcm", data |-> <<41, 42>> ]) ]

Junk == [ bytes |-> <<17, 18, 19>>, frame |-> None ]

MediaRecords == {InfoRecord, IFrameRecord, PFrameRecord, AacRecord, AdpcmRecord, Junk}

RECURSIVE BytesOf(_)
\* the bytes of a sequence of records
BytesOf(records) ==
    IF records = <<>> THEN <<>> ELSE Head(records).bytes \o BytesOf(Tail(records))

\* a connection logged in under BcXor, its VideoStream constructed
StreamInit ==
    /\ crypto = BcCrypto(BCEncrypt, <<>>)
    /\ FreshTransport
    /\ AuthIdle
    /\ StreamIdle
    /\ SocketConnected
    /\ HistoryEmpty
    /\ CheckedBuild
    /\ aes_ctx = None

\* nothing the camera sent earlier is still on its way or buffered
CameraTurn == wire = <<>> /\ sock = <<>> /\ recv_buffer = <<>>

\* the camera answers the start request: accepted in binary mode, or rejected
StreamCameraRespond ==
    /\ stream_pc = "starting"
    /\ cam_sent = <<>>
    /\ CameraTurn
    /\ \E code \in {RESPONSE_CODE_OK, RESPONSE_CODE_BAD_REQUEST} :
          CameraSend([ CamWithExt(MSG_ID_VIDEO, msg_num_counter,
                                  ExtensionOpen \o BinaryDataTag \o ExtensionClose, <<>>)
                         EXCEPT !.header.response_code = code ])
    /\ UNCHANGED <<media_records, media_sent>>

\* the camera has accepted the start request
CameraStreams == cam_sent # <<>> /\ cam_sent[1].header.response_code = RESPONSE_CODE_OK

\* the camera puts one more record into its stream
StreamCameraProduce ==
    /\ CameraStreams
    /\ CameraTurn
    /\ Len(media_records) < MaxStreamRecords
    /\ \E r \in MediaRecords : media_records' = Append(media_records, r)
    /\ UNCHANGED <<connVars, netVars, histVars, authVars, media_sent, extVars>>
    /\ UNCHANGED <<stream_pc, thread_pc, streaming, media_buffer, stats, stream_info_received,
                   stream_info, stream_binary_nums, frames>>

\* the camera sends the next bytes of its stream in a VIDEO message
StreamCameraSendVideo ==
    /\ CameraStreams
    /\ CameraTurn
    /\ LET pending == Drop(BytesOf(media_records), media_sent)
       IN  /\ pending # <<>>
           /\ \E k \in {Min(MediaChunk, Len(pending)), Len(pending)} :
                 /\ CameraSend(CamNoExt(MSG_ID_VIDEO, cam_sent[1].header.msg_num,
                                        MSG_CLASS_MODERN_24, Take(pending, k)))
                 /\ media_sent' = media_sent + k
    /\ UNCHANGED media_records

\* the non-VIDEO messages the camera has framed
OtherSent == { i \in 1..Len(cam_sent) : cam_sent[i].header.msg_id # MSG_ID_VIDEO }

\* the camera sends a message of another kind whose payload looks like media
StreamCameraSendOther ==
    /\ CameraStreams
    /\ CameraTurn
    /\ Cardinality(OtherSent) < MaxOtherMsgs
    /\ CameraSend(CamNoExt(MSG_ID_MOTION, cam_sent[1].header.msg_num,
                           MSG_CLASS_MODERN_24, PFrameRecord.bytes))
    /\ UNCHANGED <<media_records, media_sent>>

StreamDeliver ==
    /\ wire # <<>>
    /\ Deliver(Len(wire))

\* the message of send_start_request and send_stop_request
PreviewMessage(msg_id, msg_num) ==
    create_with_payload(msg_id, msg_num, PreviewRequestXml, MSG_CLASS_MODERN_24)

\* start() up to its receive (stream.cpp:13-31, 89-104)
StreamStart ==
    /\ stream_pc = "idle"
    /\ ~streaming
    /\ stats' = Stats
    /\ stream_info_received' = FALSE
    /\ msg_num_counter' = (msg_num_counter + 1) % 65536
    /\ \E sent_ok \in BOOLEAN :
          IF sent_ok
          THEN /\ SendMessage(PreviewMessage(MSG_ID_VIDEO, msg_num_counter'))
               /\ stream_pc' = "starting"
          ELSE /\ stream_pc' = "failed"
               /\ UNCHANGED <<sent, send_offset>>
    /\ UNCHANGED <<crypto, recv_offset, recv_buffer, binary_mode_nums, wire, sock, histVars,
                   authVars, thread_pc, streaming, media_buffer, stream_info,
                   stream_binary_nums, frames, media_records, media_sent, extVars>>

\* A plausible slip: any response starts the stream.
StartAccepted_AnyCode(msg) == msg # None

\* A plausible slip: only a VIDEO message counts as the response.
StartAccepted_VideoOnly(msg) ==
    /\ msg # None
    /\ Get(msg).header.msg_id = MSG_ID_VIDEO
    /\ Get(msg).header.response_code = RESPONSE_CODE_OK

\* start(): a response arrived and its code is 200 (stream.cpp:33-42)
StartAccepted(msg) ==
    msg # None /\ Get(msg).header.response_code = RESPONSE_CODE_OK

\* A plausible slip: the payload of the response is fed to the media buffer.
StartBuffer_PayloadAppended(buffer, payload) == buffer \o payload

\* start() passes its response to no one: the media buffer is what it was
\* (stream.cpp:31-62)
StartBuffer(buffer, payload) == buffer

\* start() from its receive on (stream.cpp:31-62)
StreamStartResponse ==
    /\ stream_pc = "starting"
    /\ LET r == receive_message(recv_buffer, sock, crypto, binary_mode_nums)
           response == Get(r.msg)
       IN  /\ ReceiveEffect(r)
           /\ recv_offset' = recv_offset + r.body_len
           /\ IF ~StartAccepted(r.msg)
              THEN /\ stream_pc' = "failed"
                   /\ UNCHANGED <<stream_binary_nums, streaming, thread_pc, media_buffer>>
              ELSE /\ stream_binary_nums' =
                          IF AnnouncesBinary(response.extension_data)
                          THEN stream_binary_nums \cup {response.header.msg_num}
                          ELSE stream_binary_nums
                   /\ media_buffer' = StartBuffer(media_buffer, response.payload_data)
                   /\ streaming' = TRUE
                   /\ thread_pc' = "check"
                   /\ stream_pc' = "running"
    /\ UNCHANGED <<crypto, send_offset, msg_num_counter, wire, sent, cam_sent, authVars,
                   stats, stream_info_received, stream_info, frames,
                   media_records, media_sent, extVars>>

\* A plausible slip: the loop does not test the flag.
LoopContinues_Always(flag) == TRUE

\* receive_loop: while (streaming_.load()) (stream.cpp:126)
LoopContinues(flag) == flag

\* receive_loop: the loop test (stream.cpp:126)
LoopCheck ==
    /\ thread_pc = "check"
    /\ ~media_thrown
    /\ thread_pc' = IF LoopContinues(streaming) THEN "receive" ELSE "ended"
    /\ UNCHANGED <<connVars, netVars, histVars, authVars, stream_pc, streaming, media_buffer,
                   stats, stream_info_received, stream_info, stream_binary_nums, frames,
                   media_records, media_sent, extVars>>

\* the last Info frame among the frames of one drain, if there is one
LastInfo(emitted) ==
    LET at == { i \in 1..Len(emitted) : emitted[i].type = "Info" }
    IN  IF at = {} THEN None ELSE Some(emitted[CHOOSE i \in at : \A j \in at : j <= i])

\* process_message on a video message with a payload: what process_media_data
\* did with it (stream.cpp:150-158). An exception that leaves
\* process_media_data is caught nowhere and ends the program with the thread:
\* media_thrown keeps the loop from going on.
MediaEffect(done) ==
    /\ media_buffer' = done.media_buffer
    /\ stats' = done.stats
    /\ frames' = frames \o done.frames
    /\ stream_info_received' = (stream_info_received \/ LastInfo(done.frames) # None)
    /\ stream_info' = IF LastInfo(done.frames) # None
                      THEN LastInfo(done.frames) ELSE stream_info
    /\ media_thrown' = done.thrown

\* VideoStream::process_message (stream.cpp:139-159)
process_message(msg) ==
    IF ~IsVideoMessage(msg)
    THEN UNCHANGED <<stream_binary_nums, media_buffer, stats, frames,
                     stream_info_received, stream_info, media_thrown>>
    ELSE /\ stream_binary_nums' =
                IF AnnouncesBinary(msg.extension_data)
                THEN stream_binary_nums \cup {msg.header.msg_num}
                ELSE stream_binary_nums
         /\ IF msg.payload_data = <<>>
            THEN UNCHANGED <<media_buffer, stats, frames, stream_info_received,
                             stream_info, media_thrown>>
            ELSE MediaEffect(process_media_data(media_buffer, msg.payload_data, stats))

\* what receive_loop does with the outcome r of its receive (stream.cpp:128-134)
LoopReceived(r) ==
    /\ ReceiveEffect(r)
    /\ recv_offset' = recv_offset + r.body_len
    /\ IF r.msg = None
       THEN UNCHANGED <<stream_binary_nums, media_buffer, stats, frames,
                        stream_info_received, stream_info, media_thrown>>
       ELSE process_message(Get(r.msg))

\* receive_loop: one receive and process_message on what it returned
\* (stream.cpp:123-137)
LoopReceive ==
    /\ thread_pc = "receive"
    /\ calls_after_stop < MaxCallsAfterStop
    /\ calls_after_stop' = IF streaming THEN calls_after_stop ELSE calls_after_stop + 1
    /\ last_failure' = receive_failure(recv_buffer, sock, peer_closed)
    /\ LoopReceived(receive_message(recv_buffer, sock, crypto, binary_mode_nums))
    /\ thread_pc' = "check"
    /\ UNCHANGED <<crypto, send_offset, msg_num_counter, wire, sent, cam_sent, authVars,
                   stream_pc, streaming, media_records, media_sent, sockVars, raceVars,
                   other_stop, numVars, cipherVars, callVars, adpcm_underflow>>

\* stop() up to the join (stream.cpp:65-74, 106-121), on a socket that takes
\* the stop request
StreamStop ==
    /\ stream_pc = "running"
    /\ streaming
    /\ streaming' = FALSE
    /\ msg_num_counter' = (msg_num_counter + 1) % 65536
    /\ SendMessage(PreviewMessage(MSG_ID_VIDEO_STOP, msg_num_counter'))
    /\ stream_pc' = "joining"
    /\ UNCHANGED <<crypto, recv_offset, recv_buffer, binary_mode_nums, wire, sock, histVars,
                   authVars, thread_pc, media_buffer, stats, stream_info_received,
                   stream_info, stream_binary_nums, frames, media_records, media_sent, extVars>>

\* stop() once the receive thread has ended (stream.cpp:76-86)
StreamJoin ==
    /\ stream_pc = "joining"
    /\ thread_pc = "ended"
    /\ stream_binary_nums' = {}
    /\ stream_pc' = "stopped"
    /\ UNCHANGED <<connVars, netVars, histVars, authVars, thread_pc, streaming, media_buffer,
                   stats, stream_info_received, stream_info, frames, media_records,
                   media_sent, extVars>>

StreamNext ==
    \/ StreamCameraRespond
    \/ StreamCameraProduce
    \/ StreamCameraSendVideo
    \/ StreamCameraSendOther
    \/ StreamDeliver
    \/ StreamStart
    \/ StreamStartResponse
    \/ LoopCheck
    \/ LoopReceive
    \/ StreamStop
    \/ StreamJoin

SpecStream == StreamInit /\ [][StreamNext]_vars

(***************************************************************************)
(* Claims about the streaming session, checked under SpecStream.  The      *)
(* frames the callback must have seen are read off the camera's records,   *)
(* not off the parser.                                                     *)
(***************************************************************************)
RECURSIVE VideoBytes(_)
\* the payloads of the VIDEO messages of a receive log, in order
VideoBytes(log) ==
    IF log = <<>> THEN <<>>
    ELSE (IF Head(log).msg.header.msg_id = MSG_ID_VIDEO
          THEN Head(log).msg.payload_data ELSE <<>>) \o VideoBytes(Tail(log))

RECURSIVE FramesOf(_)
\* the frames a sequence of records encodes, in order
FramesOf(records) ==
    IF records = <<>> THEN <<>>
    ELSE (IF Head(records).frame = None THEN <<>> ELSE <<Get(Head(records).frame)>>)
         \o FramesOf(Tail(records))

\* the VIDEO payload bytes received so far, and how many of them have left the
\* media buffer
Appended == VideoBytes(recv_log)
Removed == Len(Appended) - Len(media_buffer)

\* where record i of the camera's stream ends
EndOf(i) == Len(BytesOf(SubSeq(media_records, 1, i)))

\* the records whose bytes have all been received
Complete == { i \in 1..Len(media_records) : EndOf(i) <= Len(Appended) }

\* the complete records that encode a frame
IsFrameRecord(r) == r.frame # None
EmittedRecords == SelectSeq(SubSeq(media_records, 1, Cardinality(Complete)), IsFrameRecord)

\* the end of the last complete record that encodes a frame
LastFrameEnd ==
    LET done == { i \in Complete : media_records[i].frame # None }
    IN  IF done = {} THEN 0 ELSE EndOf(CHOOSE i \in done : \A j \in done : j <= i)

\* the start of the first record that encodes a frame and is not complete
NextFrameStart ==
    LET open == { i \in 1..Len(media_records) :
                    i \notin Complete /\ media_records[i].frame # None }
    IN  IF open = {} THEN Len(BytesOf(media_records))
        ELSE EndOf((CHOOSE i \in open : \A j \in open : i <= j) - 1)

\* C9: the payloads of the received VIDEO messages, and no bytes of any other
\* message, reach the media buffer in order, and the frame callback has been
\* invoked once for each record completely received, in the order of the byte
\* stream.
C9_FramesInStreamOrder ==
    /\ Appended = Take(BytesOf(media_records), Len(Appended))
    /\ Removed >= 0
    /\ media_buffer = Drop(Appended, Removed)
    /\ frames = FramesOf(SubSeq(media_records, 1, Cardinality(Complete)))

\* two frames have been delivered from a stream cut into three or more VIDEO
\* messages, with a non-VIDEO message received in between
C9_Witness ==
    /\ Len(frames) = 2
    /\ \E i \in 1..Len(recv_log) : recv_log[i].msg.header.msg_id = MSG_ID_MOTION
    /\ Cardinality({ i \in 1..Len(recv_log) :
                       /\ recv_log[i].msg.header.msg_id = MSG_ID_VIDEO
                       /\ recv_log[i].msg.payload_data # <<>> }) >= 3

\* C10: the bytes that have left the media buffer are all the bytes of the
\* frames emitted, none of the bytes of a record not yet complete, and between
\* them only bytes that belong to no record; the counters hold one frame and its
\* consumed bytes for each frame emitted.
C10_IncompleteRecordKept ==
    /\ LastFrameEnd <= Removed
    /\ Removed <= Min(NextFrameStart, Len(Appended))
    /\ media_buffer = Drop(Appended, Removed)
    /\ Len(frames) = Len(EmittedRecords)
    /\ stats.frames_received = Len(frames)
    /\ stats.bytes_received = Len(BytesOf(EmittedRecords))

\* after a frame was emitted the drain has stopped on a record of known magic
\* that is not complete: its bytes are what the buffer holds
C10_Witness ==
    /\ Len(frames) >= 1
    /\ Len(media_buffer) >= 4
    /\ is_bcmedia_magic(read_u32_le(media_buffer, 0))
    /\ parse(media_buffer) = None
    /\ Removed = LastFrameEnd

(***************************************************************************)
(* SpecDrain: process_media_data alone.  A byte stream made of records and *)
(* of bytes that belong to no record is handed to it in pieces of any      *)
(* size; SpecParse: BcMediaParser::parse alone, called once on one input.  *)
(***************************************************************************)
JunkLong == [ bytes |-> <<17, 18, 19, 20, 21>>, frame |-> None ]

\* bytes of no record that begin with no magic and hold a whole AAC record
\* from their second byte on
JunkHoldingRecord == [ bytes |-> <<17>> \o AacRecord.bytes, frame |-> None ]

\* bytes of no record that begin with no magic and hold, from their second
\* byte on, the AAC magic and a payload_size of 200
JunkHoldingMagic ==
    [ bytes |-> <<17>> \o write_u32_le(MAGIC_BCMEDIA_AAC) \o write_u16_le(200)
                  \o write_u16_le(200),
      frame |-> None ]

\* an ADPCM record whose payload_size, 2, is below the 4 bytes of its inner header
AdpcmShortRecord ==
    [ bytes |-> write_u32_le(MAGIC_BCMEDIA_ADPCM) \o write_u16_le(2) \o write_u16_le(2)
                  \o <<0, 1>> \o write_u16_le(0),
      frame |-> None ]

\* an IFrame record without additional header
IFrameNoTimeRecord ==
    [ bytes |-> write_u32_le(MAGIC_BCMEDIA_IFRAME_LAST) \o <<72, 50, 54, 52>>
                  \o write_u32_le(5) \o write_u32_le(0) \o write_u32_le(3000)
                  \o write_u32_le(0) \o <<51, 52, 53, 54, 55>> \o <<0, 0, 0>>,
      frame |-> Some([ type |-> "IFrame", codec |-> "H264", microseconds |-> 3000,
                       posix_time |-> None, data |-> <<51, 52, 53, 54, 55>> ]) ]

\* a PFrame record with an additional header of 4 bytes
PFrameWithHeaderRecord ==
    [ bytes |-> write_u32_le(MAGIC_BCMEDIA_PFRAME) \o <<72, 50, 54, 53>>
                  \o write_u32_le(2) \o write_u32_le(4) \o write_u32_le(4000)
                  \o write_u32_le(0) \o write_u32_le(88) \o <<61, 62>>
                  \o <<0, 0, 0, 0, 0, 0>>,
      frame |-> Some([ type |-> "PFrame", codec |-> "H265", microseconds |-> 4000,
                       data |-> <<61, 62>> ]) ]

\* the records that encode a frame
ValidRecords ==
    {InfoRecord, IFrameRecord, PFrameRecord, AacRecord, AdpcmRecord, IFrameNoTimeRecord,
     PFrameWithHeaderRecord}

DrainRecords ==
    {InfoRecord, IFrameRecord, PFrameRecord, AacRecord, AdpcmRecord, Junk, JunkLong,
     JunkHoldingRecord, JunkHoldingMagic, AdpcmShortRecord}

\* the streams handed to the drain
DrainStreams ==
    { <<>> } \cup { <<a>> : a \in DrainRecords }
             \cup { <<a, b>> : a \in DrainRecords, b \in DrainRecords }

\* what std::vector::assign does with a range that ends before it begins
Builds == {"throws", "returns"}

\* everything but the media parser and the build is idle
OnlyParser ==
    /\ crypto = BcCrypto(Unencrypted, <<>>)
    /\ FreshTransport
    /\ AuthIdle
    /\ SocketConnected
    /\ aes_ctx = None
    /\ stream_pc = "idle"
    /\ thread_pc = "none"
    /\ streaming = FALSE
    /\ media_buffer = <<>>
    /\ stats = Stats
    /\ stream_info_received = FALSE
    /\ stream_info = None
    /\ stream_binary_nums = {}
    /\ frames = <<>>
    /\ media_sent = 0
    /\ adpcm_underflow \in Builds

DrainInit ==
    /\ OnlyParser
    /\ HistoryEmpty
    /\ media_records \in DrainStreams

\* the next k bytes of the stream are handed to process_media_data
\* (stream.cpp:161-260); an exception ends the program
DrainFeed ==
    /\ ~media_thrown
    /\ LET pending == Drop(BytesOf(media_records), media_sent)
       IN  /\ pending # <<>>
           /\ \E k \in 1..Len(pending) :
                 LET done == process_media_data(media_buffer, Take(pending, k), stats)
                 IN  /\ media_sent' = media_sent + k
                     /\ media_buffer' = done.media_buffer
                     /\ stats' = done.stats
                     /\ frames' = frames \o done.frames
                     /\ media_thrown' = done.thrown
    /\ UNCHANGED <<connVars, netVars, histVars, authVars, stream_pc, thread_pc, streaming,
                   stream_info_received, stream_info, stream_binary_nums, media_records,
                   sockVars, raceVars, loopVars, numVars, cipherVars, callVars,
                   adpcm_underflow>>

DrainNext == DrainFeed

SpecDrain == DrainInit /\ [][DrainNext]_vars

\* the magics of section 4.7 of the protocol
KnownMagics ==
    {MAGIC_BCMEDIA_INFO_V1, MAGIC_BCMEDIA_INFO_V2, MAGIC_BCMEDIA_AAC, MAGIC_BCMEDIA_ADPCM}
        \cup (MAGIC_BCMEDIA_IFRAME..MAGIC_BCMEDIA_IFRAME_LAST)
        \cup (MAGIC_BCMEDIA_PFRAME..MAGIC_BCMEDIA_PFRAME_LAST)

\* the whole stream has been handed over
DrainStream == BytesOf(media_records)
AllFed == media_sent = Len(DrainStream)

\* the stream is garbage, its first four bytes no known magic, then a valid record
GarbageThenRecord ==
    /\ Len(media_records) = 2
    /\ media_records[1].frame = None
    /\ media_records[2] \in ValidRecords
    /\ read_u32_le(DrainStream, 0) \notin KnownMagics

\* no four bytes that begin inside the garbage are a known magic
NoMagicInGarbage ==
    \A at \in 0..(Len(media_records[1].bytes) - 1) :
        read_u32_le(DrainStream, at) \notin KnownMagics

\* the record after the garbage was the first frame emitted, with its own size
\* as consumed, and every byte before it was discarded
ResyncedOnRecord ==
    /\ frames = <<Get(media_records[2].frame)>>
    /\ stats.frames_received = 1
    /\ stats.bytes_received = Len(media_records[2].bytes)
    /\ media_buffer = <<>>
    /\ ~media_thrown

IsPrefix(s, t) == Len(s) <= Len(t) /\ SubSeq(t, 1, Len(s)) = s

\* the frames of one process_media_data call on an empty buffer
FramesAtOnce(bytes) == process_media_data(<<>>, bytes, Stats).frames

\* C12: the frames emitted for the bytes handed over so far, however they were
\* cut into chunks, are the frames emitted for those bytes handed over at once,
\* and a prefix of the frames emitted for them followed by the rest of the
\* stream.
C12_FramesIndependentOfChunks ==
    /\ frames = FramesAtOnce(Take(DrainStream, media_sent))
    /\ IsPrefix(frames, FramesAtOnce(DrainStream))

\* the bytes handed over so far end inside the second record: the frame of the
\* first was emitted, the buffer holds the bytes of the second, the rest is to come
C12_Witness ==
    /\ media_records = <<InfoRecord, PFrameRecord>>
    /\ frames = <<Get(InfoRecord.frame)>>
    /\ media_sent = Len(InfoRecord.bytes) + 10
    /\ media_buffer = Take(PFrameRecord.bytes, 10)

\* a frame record cut short by one byte, followed by nothing
RecordBases ==
    { r.bytes \o <<9, 9>> : r \in ValidRecords \cup {AdpcmShortRecord, JunkLong} }

\* an IFrame record whose additional header is 2 bytes long
IFrameOddHeaderBytes ==
    write_u32_le(MAGIC_BCMEDIA_IFRAME) \o <<72, 50, 54, 52>> \o write_u32_le(2)
        \o write_u32_le(2) \o write_u32_le(5000) \o write_u32_le(0) \o <<7, 7>>
        \o <<71, 72>> \o <<0, 0, 0, 0, 0, 0>>

\* headers that announce more than follows them
AacLargeBytes ==
    write_u32_le(MAGIC_BCMEDIA_AAC) \o write_u16_le(300) \o write_u16_le(300)
        \o <<1, 2, 3, 4, 5, 6, 7, 8>>

PFrameHugeBytes ==
    write_u32_le(MAGIC_BCMEDIA_PFRAME) \o <<72, 50, 54, 52>> \o write_u32_le(16777216)
        \o write_u32_le(65536) \o write_u32_le(0) \o write_u32_le(0) \o <<1, 2, 3, 4>>

AdpcmEmptyBytes ==
    write_u32_le(MAGIC_BCMEDIA_ADPCM) \o write_u16_le(0) \o write_u16_le(0)
        \o <<0, 1>> \o write_u16_le(0) \o <<9>>

\* the inputs of parse: every prefix of every base
ParseBases ==
    RecordBases \cup {IFrameOddHeaderBytes, AacLargeBytes, PFrameHugeBytes, AdpcmEmptyBytes}

ParseInputs == { Take(b, n) : b \in ParseBases, n \in 0..MaxParseLen }

ParseInit ==
    /\ OnlyParser
    /\ media_records = <<>>
    /\ last_failure = ""
    /\ calls_after_stop = 0
    /\ other_stop = "idle"
    /\ num_calls = 0
    /\ last_num = 0
    /\ prev_num = 0
    /\ cipher_log = <<>>
    /\ media_thrown = FALSE
    /\ call_result = None
    /\ \E input \in ParseInputs : call_args = Some(input)

\* one call of BcMediaParser::parse (bc_media.cpp:83-116)
ParseCall ==
    /\ call_result = None
    /\ LET input == Get(call_args)
       IN  call_result' =
               IF parse_undefined(input) /\ adpcm_underflow = "throws"
               THEN Some([returned |-> None, thrown |-> TRUE])
               ELSE Some([returned |-> parse(input), thrown |-> FALSE])
    /\ UNCHANGED <<connVars, netVars, histVars, authVars, streamVars, sockVars, raceVars,
                   loopVars, numVars, cipherVars, call_args, buildVars>>

ParseNext == ParseCall

SpecParse == ParseInit /\ [][ParseNext]_vars

\* the input begins with a complete record
BeginsWithRecord(input) ==
    \E r \in ValidRecords : Len(input) >= Len(r.bytes) /\ Take(input, Len(r.bytes)) = r.bytes

\* C13: parse returns (frame, consumed) for every input that begins with a
\* complete record, and whenever it returns, 0 < consumed <= len.
C13_ConsumedWithinInput ==
    call_result # None =>
        LET input == Get(call_args)
            returned == Get(call_result).returned
        IN  /\ returned # None =>
                  /\ 0 < Get(returned).consumed
                  /\ Get(returned).consumed <= Len(input)
            /\ BeginsWithRecord(input) => returned # None

\* parse has returned the frame of a record followed by more bytes, and its size
C13_Witness ==
    /\ call_result # None
    /\ Get(call_args) = AacRecord.bytes \o <<9, 9>>
    /\ Get(call_result).returned = Parsed(Get(AacRecord.frame), Len(AacRecord.bytes))

(***************************************************************************)
(* SpecSession: one streaming session on a connection the camera may       *)
(* close and on which it may write bytes that are no header.  SpecSessionFair *)
(* adds that the receive thread and the caller of stop() keep running.     *)
(***************************************************************************)
\* 24 bytes that begin with neither magic of the BC header
BadHeaderBytes == write_u32_le(12345) \o [i \in 1..20 |-> 0]

SessionCameraRespond == ~peer_closed /\ StreamCameraRespond

\* the camera sends a whole AAC record in a VIDEO message
SessionCameraSendVideo ==
    /\ ~peer_closed
    /\ CameraStreams
    /\ Len(cam_sent) < MaxSessionMsgs
    /\ CameraSend(CamNoExt(MSG_ID_VIDEO, cam_sent[1].header.msg_num,
                           MSG_CLASS_MODERN_24, AacRecord.bytes))
    /\ UNCHANGED <<media_records, media_sent>>

\* the camera writes bytes that are no header, once nothing else is under way
SessionCameraSendBad ==
    /\ ~peer_closed
    /\ CameraStreams
    /\ CameraTurn
    /\ wire' = BadHeaderBytes
    /\ UNCHANGED <<connVars, sock, sent, histVars, authVars, streamVars, extVars>>

\* the camera closes the connection
SessionCameraClose ==
    /\ ~peer_closed
    /\ peer_closed' = TRUE
    /\ UNCHANGED <<connVars, netVars, histVars, authVars, streamVars, socket_fd, fd_open,
                   raceVars, loopVars, numVars, cipherVars, callVars, buildVars>>

SessionNext ==
    \/ SessionCameraRespond
    \/ SessionCameraSendVideo
    \/ SessionCameraSendBad
    \/ SessionCameraClose
    \/ StreamDeliver
    \/ StreamStart
    \/ StreamStartResponse
    \/ LoopCheck
    \/ LoopReceive
    \/ StreamStop
    \/ StreamJoin

SpecSession == StreamInit /\ [][SessionNext]_vars

\* when LoopReceive can take a step
LoopReceiveEnabled == thread_pc = "receive" /\ calls_after_stop < MaxCallsAfterStop

\* the receive thread is scheduled, every receive_message call returns, and the
\* caller of stop() returns from join() once the thread has ended; the third
\* conjunct is WF_vars(LoopReceive) with its ENABLED written out
SpecSessionFair ==
    /\ SpecSession
    /\ WF_vars(LoopCheck)
    /\ WF_vars(StreamJoin)
    /\ ([]<>(~LoopReceiveEnabled) \/ []<><<LoopReceive>>_vars)

\* the start request as the camera reads it: the header of the first write of
\* the session and its body in the clear
StartRequestHeader == Get(BcHeader_deserialize(sent[1]).header)
StartRequestBody == decrypt(crypto, StartRequestHeader.channel_id, Drop(sent[1], HEADER_SIZE_24))

\* C14: start sends a Preview request as a MODERN_24 message with msg_id VIDEO
\* and the msg_num next_msg_num() has just returned; with no response, or a
\* response whose code is not 200, start returns false, streaming_ stays false
\* and no receive thread is started.
C14_StartFailsWithoutOk ==
    /\ sent # <<>> =>
          /\ StartRequestHeader.msg_id = MSG_ID_VIDEO
          /\ StartRequestHeader.msg_class = MSG_CLASS_MODERN_24
          /\ StartRequestBody = PreviewRequestXml
          /\ stream_pc = "starting" => StartRequestHeader.msg_num = msg_num_counter
          /\ StartRequestHeader.msg_num > 0
    /\ stream_pc = "failed" => ~streaming /\ thread_pc = "none"
    /\ (streaming \/ thread_pc # "none") =>
          /\ recv_log # <<>>
          /\ recv_log[1].msg.header.response_code = RESPONSE_CODE_OK
    /\ (stream_pc \notin {"idle", "starting"} /\ (recv_log = <<>> \/
            recv_log[1].msg.header.response_code # RESPONSE_CODE_OK)) => stream_pc = "failed"

\* start has returned false on a response with code 400
C14_Witness ==
    /\ stream_pc = "failed"
    /\ recv_log # <<>>
    /\ recv_log[1].msg.header.response_code = RESPONSE_CODE_BAD_REQUEST
    /\ recv_log[1].msg.header.msg_num = StartRequestHeader.msg_num
    /\ ~streaming
    /\ thread_pc = "none"

\* C15: after stop() the receive loop makes at most one further receive_message
\* call, the thread ends, and stop() returns with streaming_ false.
C15_StopEndsTheLoop ==
    /\ [](calls_after_stop <= 1)
    /\ [](stream_pc = "stopped" => ~streaming /\ thread_pc = "ended")
    /\ (stream_pc = "joining" ~> stream_pc = "stopped")

\* stop() has returned after the loop made one more receive_message call
C15_Witness ==
    /\ stream_pc = "stopped"
    /\ calls_after_stop = 1
    /\ thread_pc = "ended"
    /\ ~streaming

\* C16: once receive_message has failed during streaming because the peer
\* closed the connection or a header was invalid, the receive loop does not call
\* receive_message again.
C16_FatalFailureEndsLoop ==
    last_failure \in {"closed", "invalid_header"} => thread_pc # "receive"

(***************************************************************************)
(* SpecRace: one thread inside Connection::receive_message (which holds    *)
(* recv_mutex_) while another runs Connection::disconnect (which takes no  *)
(* lock), statement by statement.  Where the receiver touches recv_buffer_ *)
(* after disconnect() cleared it, the language defines nothing: the steps  *)
(* below take every outcome a build can produce, and record the access in  *)
(* hazards.                                                                *)
(***************************************************************************)
\* the message the camera sends during the race
RaceMessage == CamNoExt(MSG_ID_MOTION, 1, MSG_CLASS_MODERN_24, <<7, 8>>)

\* the receive timeout of the callers (stream.cpp:127): never 0
RaceIdle ==
    /\ crypto = BcCrypto(Unencrypted, <<>>)
    /\ FreshTransport
    /\ AuthIdle
    /\ StreamIdle
    /\ SocketConnected
    /\ HistoryEmpty
    /\ CheckedBuild
    /\ aes_ctx = None

RaceCameraSend ==
    /\ cam_sent = <<>>
    /\ CameraSend(RaceMessage)
    /\ UNCHANGED <<media_records, media_sent>>

RaceDeliver ==
    /\ wire # <<>>
    /\ \E k \in {Min(ChunkSmall, Len(wire)), Len(wire)} : Deliver(k)

\* the variables the race leaves alone
raceFrame == <<crypto, msg_num_counter, wire, sent, histVars, authVars, streamVars,
               peer_closed, loopVars, numVars, cipherVars, callVars, buildVars>>

InCall == rx.pc \notin {"idle", "returned", "crashed"}

\* the call returns what it returns
Return(value) == [rx EXCEPT !.pc = "returned", !.result = value]

\* the bytes the loop under way waits for: a header, then the whole message
RaceNeed ==
    IF rx.parsed = None THEN HEADER_SIZE_24
    ELSE Get(rx.parsed).size + Get(rx.parsed).header.body_len

\* the receiver's access to recv_buffer_, noted when disconnect() cleared it
\* during the call
Touch(kind) == IF rx.cleared THEN hazards \cup {kind} ELSE hazards

\* receive_message: the connected test (connection.cpp:158-161)
RaceEnter ==
    /\ rx.pc = "idle"
    /\ rx' = IF socket_fd < 0 THEN Return(None) ELSE [rx EXCEPT !.pc = "test"]
    /\ UNCHANGED <<recv_buffer, sock, socket_fd, fd_open, disc_pc, hazards, send_offset,
                   recv_offset, binary_mode_nums, raceFrame>>

\* the loop tests (connection.cpp:164 and 192)
RaceTest ==
    /\ rx.pc = "test"
    /\ hazards' = Touch("read_cleared_buffer")
    /\ rx' = [rx EXCEPT !.pc = IF Len(recv_buffer) < RaceNeed THEN "poll"
                               ELSE IF rx.parsed = None THEN "parse" ELSE "extract"]
    /\ UNCHANGED <<recv_buffer, sock, socket_fd, fd_open, disc_pc, send_offset,
                   recv_offset, binary_mode_nums, raceFrame>>

\* wait_for_data (connection.cpp:385-404): poll() skips a negative descriptor and
\* times out, reports a closed one at once (POLLNVAL), and on an open one waits
\* for bytes
RacePoll ==
    /\ rx.pc = "poll"
    /\ IF socket_fd < 0 THEN rx' = Return(None) /\ UNCHANGED hazards
       ELSE IF ~fd_open
       THEN /\ rx' = [rx EXCEPT !.pc = "recv", !.fd = socket_fd]
            /\ hazards' = hazards \cup {"closed_descriptor"}
       ELSE /\ rx' = IF sock = <<>> THEN Return(None)
                     ELSE [rx EXCEPT !.pc = "recv", !.fd = socket_fd]
            /\ UNCHANGED hazards
    /\ UNCHANGED <<recv_buffer, sock, socket_fd, fd_open, disc_pc, send_offset,
                   recv_offset, binary_mode_nums, raceFrame>>

\* recv() and the insert (connection.cpp:169-179 and 199-209): recv() fails on a
\* descriptor that is negative or closed
RaceRecv ==
    /\ rx.pc = "recv"
    /\ IF socket_fd < 0 \/ ~fd_open \/ sock = <<>>
       THEN /\ rx' = Return(None)
            /\ hazards' = IF socket_fd >= 0 /\ ~fd_open
                          THEN hazards \cup {"closed_descriptor"} ELSE hazards
            /\ UNCHANGED <<recv_buffer, sock>>
       ELSE LET n == Min(IF rx.parsed = None THEN RECV_CHUNK_HEADER ELSE RECV_CHUNK_BODY,
                         Len(sock))
            IN  /\ recv_buffer' = recv_buffer \o Take(sock, n)
                /\ sock' = Drop(sock, n)
                /\ hazards' = Touch("append_cleared_buffer")
                /\ rx' = [rx EXCEPT !.pc = "test"]
    /\ UNCHANGED <<socket_fd, fd_open, disc_pc, send_offset, recv_offset,
                   binary_mode_nums, raceFrame>>

\* BcHeader::deserialize on the buffer (connection.cpp:183-191)
RaceParse ==
    /\ rx.pc = "parse"
    /\ hazards' = Touch("read_cleared_buffer")
    /\ LET parsed == BcHeader_deserialize(recv_buffer)
       IN  rx' = IF parsed.size = 0 THEN Return(None)
                 ELSE [rx EXCEPT !.pc = "test",
                                 !.parsed = Some([size |-> parsed.size,
                                                  header |-> Get(parsed.header)])]
    /\ UNCHANGED <<recv_buffer, sock, socket_fd, fd_open, disc_pc, send_offset,
                   recv_offset, binary_mode_nums, raceFrame>>

\* The body is copied out of the buffer and decoded (connection.cpp:212-337).  A
\* buffer cleared since the loop test is shorter than the range copied: the copy
\* reads the storage clear() left behind, or faults.
RaceExtract ==
    /\ rx.pc = "extract"
    /\ hazards' = Touch("read_cleared_buffer")
    /\ LET header == Get(rx.parsed).header
           total_size == Get(rx.parsed).size + header.body_len
           storage == IF Len(recv_buffer) >= total_size THEN recv_buffer ELSE rx.stale
           body == SubSeq(storage, Get(rx.parsed).size + 1, total_size)
           decoded == DecodeBody(header, body, crypto, binary_mode_nums)
       IN  \/ /\ rx' = [rx EXCEPT !.pc = "erase", !.result = Some(decoded.msg)]
              /\ binary_mode_nums' = decoded.binary_mode_nums
           \/ /\ Len(recv_buffer) < total_size
              /\ rx' = [rx EXCEPT !.pc = "crashed"]
              /\ UNCHANGED binary_mode_nums
    /\ UNCHANGED <<recv_buffer, sock, socket_fd, fd_open, disc_pc, send_offset,
                   recv_offset, raceFrame>>

\* recv_offset_ and the erase (connection.cpp:339-348).  Erasing more than the
\* buffer holds moves a range of negative length: the program faults, or goes on
\* with an empty buffer.
RaceErase ==
    /\ rx.pc = "erase"
    /\ hazards' = Touch("erase_cleared_buffer")
    /\ recv_offset' = recv_offset + Get(rx.parsed).header.body_len
    /\ LET total_size == Get(rx.parsed).size + Get(rx.parsed).header.body_len
       IN  \/ /\ recv_buffer' = EraseProcessed(recv_buffer, total_size)
              /\ rx' = [rx EXCEPT !.pc = "returned"]
           \/ /\ Len(recv_buffer) < total_size
              /\ rx' = [rx EXCEPT !.pc = "crashed"]
              /\ UNCHANGED recv_buffer
    /\ UNCHANGED <<sock, socket_fd, fd_open, disc_pc, send_offset,
                   binary_mode_nums, raceFrame>>

\* a step of disconnect() that changed the connection under a call
Overlap == IF InCall THEN [rx EXCEPT !.overlapped = TRUE] ELSE rx

\* disconnect(): if (socket_fd_ >= 0) (connection.cpp:108)
DiscCheck ==
    /\ disc_pc = "idle"
    /\ disc_pc' = IF socket_fd >= 0 THEN "close" ELSE "clear"
    /\ UNCHANGED <<rx, recv_buffer, sock, socket_fd, fd_open, hazards, send_offset,
                   recv_offset, binary_mode_nums, raceFrame>>

\* close(socket_fd_) (connection.cpp:110)
DiscClose ==
    /\ disc_pc = "close"
    /\ fd_open' = FALSE
    /\ rx' = Overlap
    /\ disc_pc' = "setfd"
    /\ UNCHANGED <<recv_buffer, sock, socket_fd, hazards, send_offset, recv_offset,
                   binary_mode_nums, raceFrame>>

\* socket_fd_ = -1 (connection.cpp:111)
DiscSetFd ==
    /\ disc_pc = "setfd"
    /\ socket_fd' = -1
    /\ rx' = Overlap
    /\ disc_pc' = "clear"
    /\ UNCHANGED <<recv_buffer, sock, fd_open, hazards, send_offset, recv_offset,
                   binary_mode_nums, raceFrame>>

\* recv_buffer_.clear() (connection.cpp:113): the size becomes 0, the storage
\* and what it holds stay
DiscClear ==
    /\ disc_pc = "clear"
    /\ recv_buffer' = <<>>
    /\ rx' = IF InCall
             THEN [rx EXCEPT !.overlapped = TRUE, !.cleared = TRUE, !.stale = recv_buffer]
             ELSE rx
    /\ disc_pc' = "offsets"
    /\ UNCHANGED <<sock, socket_fd, fd_open, hazards, send_offset, recv_offset,
                   binary_mode_nums, raceFrame>>

\* send_offset_ = 0; recv_offset_ = 0 (connection.cpp:114-115)
DiscOffsets ==
    /\ disc_pc = "offsets"
    /\ send_offset' = 0
    /\ recv_offset' = 0
    /\ disc_pc' = "done"
    /\ UNCHANGED <<rx, recv_buffer, sock, socket_fd, fd_open, hazards, binary_mode_nums,
                   raceFrame>>

RaceNext ==
    \/ RaceCameraSend
    \/ RaceDeliver
    \/ RaceEnter
    \/ RaceTest
    \/ RacePoll
    \/ RaceRecv
    \/ RaceParse
    \/ RaceExtract
    \/ RaceErase
    \/ DiscCheck
    \/ DiscClose
    \/ DiscSetFd
    \/ DiscClear
    \/ DiscOffsets

SpecRace == RaceIdle /\ [][RaceNext]_vars

\* C17: a receive_message call during which disconnect() closed the socket or
\* cleared the buffer returns no message, and the receiver never reads, erases
\* from or appends to a buffer disconnect() cleared under it, nor hands a closed
\* descriptor to poll() or recv().
C17_DisconnectFailsTheCall ==
    /\ (rx.overlapped /\ rx.pc \in {"returned", "crashed"}) =>
          (rx.pc = "returned" /\ rx.result = None)
    /\ hazards = {}

(***************************************************************************)
(* SpecMsgNum: threads calling Connection::next_msg_num on one connection. *)
(* The increment is one atomic step; a run begins on a fresh connection or *)
(* on one that has NearWrapCalls calls behind it.                          *)
(***************************************************************************)
NumThreads == {"caller", "receive_thread"}

MsgNumInit ==
    /\ crypto = BcCrypto(Unencrypted, <<>>)
    /\ send_offset = 0
    /\ recv_offset = 0
    /\ recv_buffer = <<>>
    /\ binary_mode_nums = {}
    /\ wire = <<>>
    /\ sock = <<>>
    /\ sent = <<>>
    /\ cam_sent = <<>>
    /\ recv_log = <<>>
    /\ last_ok = TRUE
    /\ AuthIdle
    /\ StreamIdle
    /\ SocketConnected
    /\ CheckedBuild
    /\ aes_ctx = None
    /\ last_failure = ""
    /\ calls_after_stop = 0
    /\ other_stop = "idle"
    /\ cipher_log = <<>>
    /\ call_args = None
    /\ call_result = None
    /\ media_thrown = FALSE
    /\ \E n \in {0, NearWrapCalls} :
          /\ num_calls = n
          /\ msg_num_counter = n
          /\ last_num = n
          /\ prev_num = IF n = 0 THEN 0 ELSE n - 1

\* the calls made in this run
CallsMade == num_calls - (IF num_calls >= NearWrapCalls THEN NearWrapCalls ELSE 0)

\* thread t calls next_msg_num() (connection.h:39)
NumCall(t) ==
    /\ CallsMade < MaxNumCalls
    /\ msg_num_counter' = next_msg_num(msg_num_counter)
    /\ num_calls' = num_calls + 1
    /\ prev_num' = last_num
    /\ last_num' = next_msg_num(msg_num_counter)
    /\ call_args' = Some(t)
    /\ UNCHANGED <<crypto, send_offset, recv_offset, recv_buffer, binary_mode_nums, netVars,
                   histVars, authVars, streamVars, sockVars, raceVars, loopVars, cipherVars,
                   call_result, buildVars>>

MsgNumCallerCall == NumCall("caller")
MsgNumThreadCall == NumCall("receive_thread")

MsgNumNext == MsgNumCallerCall \/ MsgNumThreadCall

SpecMsgNum == MsgNumInit /\ [][MsgNumNext]_vars

\* C18 (as stated): the values next_msg_num() returns are strictly increasing in
\* call order, for any number of calls.
C18_StrictlyIncreasing ==
    num_calls >= 2 => prev_num < last_num

\* C18 (amended): over the first 65535 calls of a session the values
\* next_msg_num() returns are strictly increasing in call order, and so pairwise
\* distinct: call number n returns n.
C18_IncreasingBeforeWrap ==
    (num_calls >= 1 /\ num_calls <= 65535) =>
        /\ last_num = num_calls
        /\ num_calls >= 2 => prev_num < last_num

\* the receive thread made the third call and got 3, the call before it got 2
C18_Witness ==
    /\ num_calls = 3
    /\ call_args = Some("receive_thread")
    /\ prev_num = 2
    /\ last_num = 3

(***************************************************************************)
(* SpecKey: BcCrypto::derive_aes_key called once on a password and a nonce.*)
(***************************************************************************)
\* "", "a", "pw", "admin", "password123"
KeyPasswords ==
    { <<>>, <<97>>, <<112, 119>>, <<97, 100, 109, 105, 110>>,
      <<112, 97, 115, 115, 119, 111, 114, 100, 49, 50, 51>>,
      <<80, 87>>, <<49, 50, 51, 52>>, <<45>> }

\* "", "n", "ABCDEF", "0", "a-b", "nonce1", "9f", "Z"
KeyNonces ==
    { <<>>, <<110>>, <<65, 66, 67, 68, 69, 70>>, <<48>>, <<97, 45, 98>>,
      <<110, 111, 110, 99, 101, 49>>, <<57, 102>>, <<90>> }

KeyInit ==
    /\ crypto = BcCrypto(Unencrypted, <<>>)
    /\ FreshTransport
    /\ AuthIdle
    /\ StreamIdle
    /\ SocketConnected
    /\ CheckedBuild
    /\ aes_ctx = None
    /\ last_failure = ""
    /\ calls_after_stop = 0
    /\ other_stop = "idle"
    /\ num_calls = 0
    /\ last_num = 0
    /\ prev_num = 0
    /\ cipher_log = <<>>
    /\ call_result = None
    /\ media_thrown = FALSE
    /\ \E password \in KeyPasswords, nonce \in KeyNonces :
          call_args = Some([password |-> password, nonce |-> nonce])

\* one call of derive_aes_key (bc_crypto.cpp:121-152)
KeyDerive ==
    /\ call_result = None
    /\ call_result' = Some(derive_aes_key(Get(call_args).password, Get(call_args).nonce))
    /\ UNCHANGED <<connVars, netVars, histVars, authVars, streamVars, sockVars, raceVars,
                   loopVars, numVars, cipherVars, call_args, buildVars>>

KeyNext == KeyDerive

SpecKey == KeyInit /\ [][KeyNext]_vars

\* hexadecimal digit number i, from 1, of a digest, as a number below 16
Nibble(digest, i) ==
    IF i % 2 = 1 THEN digest[(i + 1) \div 2] \div 16 ELSE digest[i \div 2] % 16

\* the ASCII codes of a hexadecimal digit, in lowercase and in uppercase
LowerDigit(v) == IF v < 10 THEN 48 + v ELSE 97 + (v - 10)
UpperDigit(v) == IF v < 10 THEN 48 + v ELSE 65 + (v - 10)

\* the digest the key is made from
KeyDigest == MD5Hash(Get(call_args).nonce \o <<45>> \o Get(call_args).password)

CipherKey == derive_aes_key(<<112, 119>>, <<110>>)

\* the byte strings handed to the cipher: shorter than a block, a block and
\* more, and a string that shares its first bytes with another
CipherInputs ==
    { <<1>>, <<1, 2, 3>>, <<60, 98, 111, 100, 121, 62>>,
      <<1, 2, 3, 4, 5, 6, 7, 8, 9, 10, 11, 12, 13, 14, 15, 16, 17, 18>> }

CipherInit ==
    /\ crypto \in {BcCrypto(Aes, CipherKey), BcCrypto(FullAes, CipherKey)}
    /\ aes_ctx = Some(AesContext_init(CipherKey))
    /\ FreshTransport
    /\ AuthIdle
    /\ StreamIdle
    /\ SocketConnected
    /\ HistoryEmpty
    /\ CheckedBuild

cipherFrame == <<connVars, netVars, histVars, authVars, streamVars, sockVars, raceVars,
                 loopVars, numVars, callVars, buildVars>>

\* BcCrypto::encrypt on an Aes or FullAes object: aes_encrypt
\* (bc_crypto.cpp:154-165, 200-224)
CipherEncrypt ==
    /\ Len(cipher_log) < MaxCipherCalls
    /\ \E data \in CipherInputs :
          LET ctx == reset_enc(Get(aes_ctx))
              done == CfbUpdate(ctx.key, ctx.enc_ctx, data, TRUE, <<>>)
          IN  /\ aes_ctx' = Some([ctx EXCEPT !.enc_ctx = done.st])
              /\ cipher_log' = Append(cipher_log, [op |-> "encrypt", input |-> data,
                                                   output |-> done.out])
    /\ UNCHANGED cipherFrame

\* BcCrypto::decrypt on an Aes or FullAes object: aes_decrypt
\* (bc_crypto.cpp:167-178, 226-250)
CipherDecrypt ==
    /\ Len(cipher_log) < MaxCipherCalls
    /\ \E data \in CipherInputs :
          LET ctx == reset_dec(Get(aes_ctx))
              done == CfbUpdate(ctx.key, ctx.dec_ctx, data, FALSE, <<>>)
          IN  /\ aes_ctx' = Some([ctx EXCEPT !.dec_ctx = done.st])
              /\ cipher_log' = Append(cipher_log, [op |-> "decrypt", input |-> data,
                                                   output |-> done.out])
    /\ UNCHANGED cipherFrame

CipherNext == CipherEncrypt \/ CipherDecrypt

SpecCipher == CipherInit /\ [][CipherNext]_vars

CallIdle ==
    /\ FreshTransport
    /\ AuthIdle
    /\ StreamIdle
    /\ SocketConnected
    /\ CheckedBuild
    /\ aes_ctx = None
    /\ last_failure = ""
    /\ calls_after_stop = 0
    /\ other_stop = "idle"
    /\ num_calls = 0
    /\ last_num = 0
    /\ prev_num = 0
    /\ cipher_log = <<>>
    /\ media_thrown = FALSE
    /\ call_result = None

callFrame == <<connVars, netVars, histVars, authVars, streamVars, sockVars, raceVars,
               loopVars, numVars, cipherVars, call_args, buildVars>>

(***************************************************************************)
(* SpecXor: BcCrypto::encrypt and then BcCrypto::decrypt called with one   *)
(* offset on a BcCrypto object of type BCEncrypt, the second on what the   *)
(* first returned.                                                         *)
(***************************************************************************)
\* offsets below and above 8 and 256, and one that fills 31 bits
XorOffsets == {0, 1, 5, 7, 8, 13, 255, 256, 257, 1000, 65535, 65543, 16777216, 2147483000}

\* byte strings shorter and longer than the key
XorInputs ==
    { <<>>, <<0>>, <<255>>, <<60, 98, 111, 100, 121, 62>>,
      <<1, 2, 3, 4, 5, 6, 7, 8, 9>>,
      <<31, 45, 60, 75, 90, 105, 120, 255, 0, 128, 64, 32, 16, 8, 4, 2, 1>> }

XorInit ==
    /\ crypto = BcCrypto(BCEncrypt, <<>>)
    /\ CallIdle
    /\ \E offset \in XorOffsets, data \in XorInputs :
          call_args = Some([offset |-> offset, data |-> data])

\* BcCrypto::encrypt(offset, data) (bc_crypto.cpp:154-167)
XorEncrypt ==
    /\ call_result = None
    /\ call_result' = Some(<<encrypt(crypto, Get(call_args).offset, Get(call_args).data)>>)
    /\ UNCHANGED callFrame

\* BcCrypto::decrypt(offset, what encrypt returned) (bc_crypto.cpp:169-182)
XorDecrypt ==
    /\ call_result # None
    /\ Len(Get(call_result)) = 1
    /\ call_result' = Some(Append(Get(call_result),
                                  decrypt(crypto, Get(call_args).offset, Get(call_result)[1])))
    /\ UNCHANGED callFrame

XorNext == XorEncrypt \/ XorDecrypt

SpecXor == XorInit /\ [][XorNext]_vars

\* the bits set in a byte, and the byte of a set of bits
BitsOf(v) == { k \in 0..7 : (v \div (2 ^ k)) % 2 = 1 }
ByteOf(bits) ==
    LET w(k) == IF k \in bits THEN 2 ^ k ELSE 0
    IN  w(0) + w(1) + w(2) + w(3) + w(4) + w(5) + w(6) + w(7)

\* a XOR b on bytes: the bits set in exactly one of them
XorOf(a, b) == ByteOf((BitsOf(a) \ BitsOf(b)) \cup (BitsOf(b) \ BitsOf(a)))

\* the key of the claim: 1F 2D 3C 4B 5A 69 78 FF
XorKey == <<31, 45, 60, 75, 90, 105, 120, 255>>

\* C21: for every offset and input, byte i (from 0) of the output of the BcXor
\* transform is in[i] XOR KEY[(offset + i) mod 8] XOR (offset AND 0xFF), the
\* output has the input's length, and decrypt with the same offset on what
\* encrypt returned gives the input back.
C21_BcXorTransform ==
    call_result # None =>
        LET offset == Get(call_args).offset
            data == Get(call_args).data
            out == Get(call_result)[1]
        IN  /\ Len(out) = Len(data)
            /\ \A i \in 0..(Len(data) - 1) :
                  out[i + 1] = XorOf(XorOf(data[i + 1], XorKey[((offset + i) % 8) + 1]),
                                     offset % 256)
            /\ Len(Get(call_result)) = 2 => Get(call_result)[2] = data

\* nine bytes went through encrypt and decrypt with offset 257, whose byte is 1
\* and which begins at the second key byte
C21_Witness ==
    /\ call_result # None
    /\ Get(call_args).offset = 257
    /\ Get(call_args).data = <<1, 2, 3, 4, 5, 6, 7, 8, 9>>
    /\ Len(Get(call_result)) = 2
    /\ Get(call_result)[1] # Get(call_args).data
    /\ Get(call_result)[1][1] = 45
    /\ Get(call_result)[2] = Get(call_args).data

(***************************************************************************)
(* SpecHeader: BcHeader::serialize called on a header, then                *)
(* BcHeader::deserialize called on the bytes it returned.                  *)
(***************************************************************************)
\* 0x1234: a message class the client has no name for
MSG_CLASS_OTHER == 4660

\* the headers serialized: every field takes its default and another value,
\* and payload_offset is held or not whatever the class
HeaderInputs ==
    [ magic : {MAGIC_HEADER, MAGIC_HEADER_REV},
      msg_id : {MSG_ID_LOGIN, MSG_ID_VIDEO},
      body_len : {0, 300},
      channel_id : {0, 5},
      stream_type : {0, 1},
      msg_num : {0, 65535},
      response_code : {0, ENC_RESP_AES},
      msg_class : {MSG_CLASS_LEGACY, MSG_CLASS_MODERN_20, MSG_CLASS_MODERN_24,
                   MSG_CLASS_MODERN_24_ALT, MSG_CLASS_OTHER},
      payload_offset : {None, Some(0), Some(7)} ]

HeaderInit ==
    /\ crypto = BcCrypto(Unencrypted, <<>>)
    /\ CallIdle
    /\ \E h \in HeaderInputs : call_args = Some(h)

\* BcHeader::serialize (bc_header.cpp:36-54)
HeaderSerialize ==
    /\ call_result = None
    /\ call_result' = Some([bytes |-> BcHeader_serialize(Get(call_args)), parsed |-> None])
    /\ UNCHANGED callFrame

\* BcHeader::deserialize on the bytes (bc_header.cpp:56-88)
HeaderDeserialize ==
    /\ call_result # None
    /\ Get(call_result).parsed = None
    /\ call_result' = Some([Get(call_result) EXCEPT
                               !.parsed = Some(BcHeader_deserialize(Get(call_result).bytes))])
    /\ UNCHANGED callFrame

HeaderNext == HeaderSerialize \/ HeaderDeserialize

SpecHeader == HeaderInit /\ [][HeaderNext]_vars

\* deserialize has been called on the serialized header
Deserialized == call_result # None /\ Get(call_result).parsed # None

\* the bytes a header of the class takes, as the claim has them
ClaimedHeaderSize(class) == IF class \in {25620, 0} THEN 24 ELSE 20

\* deserialize succeeded, consumed the header's size and gave back header h
RoundTripOf(h) ==
    LET back == Get(Get(call_result).parsed)
    IN  /\ back.size = ClaimedHeaderSize(h.msg_class)
        /\ back.size = Len(Get(call_result).bytes)
        /\ back.header = Some(h)

\* C22 (as stated): for every header h with an accepted magic and any
\* msg_class, deserialize on serialize(h) succeeds, consumes header_size() bytes
\* and yields a header equal to h in every field, the presence and the value of
\* payload_offset included.
C22_HeaderRoundTrip == Deserialized => RoundTripOf(Get(call_args))

\* payload_offset is held exactly by the headers of the two 24-byte classes
OffsetMatchesClass(h) == (h.payload_offset # None) <=> is_modern_with_offset(h)

\* C22 (amended): the same for every header that holds a payload_offset exactly
\* when its class is one of the two 24-byte classes.
C22_HeaderRoundTripWhenOffsetMatchesClass ==
    (Deserialized /\ OffsetMatchesClass(Get(call_args))) => RoundTripOf(Get(call_args))

\* a header of class 0x0000 with the reversed magic and payload_offset 7 has
\* come back from its 24 bytes
C22_Witness ==
    /\ Deserialized
    /\ Get(call_args).msg_class = MSG_CLASS_MODERN_24_ALT
    /\ Get(call_args).magic = MAGIC_HEADER_REV
    /\ Get(call_args).payload_offset = Some(7)
    /\ Get(call_args).msg_num = 65535
    /\ Get(Get(call_result).parsed) = [size |-> 24, header |-> Some(Get(call_args))]

(***************************************************************************)
(* SpecRoundTrip: a message made by one of the builders of BcMessage is    *)
(* serialized, its bytes reach the socket of an unencrypted connection and *)
(* nothing follows them, and receive_message is called once.               *)
(***************************************************************************)
\* "<encryptLen>x</encryptLen>": an encryptLen element that holds no number
EncryptLenNoNumber == EncryptLenOpen \o <<120>> \o EncryptLenClose

TripClasses ==
    {MSG_CLASS_LEGACY, MSG_CLASS_MODERN_20, MSG_CLASS_MODERN_24, MSG_CLASS_MODERN_24_ALT}

TripIds == {MSG_ID_LOGIN, MSG_ID_VIDEO}

TripExtensions == {<<>>, PlainExt, BinaryDataTag, EncryptLenTag(2), EncryptLenNoNumber}

TripPayloads == {<<>>, CamPayload}

TripMessages ==
    { create_header_only(id, 1, class) : id \in TripIds, class \in TripClasses }
    \cup { create_with_payload(id, 1, payload, class) :
             id \in TripIds, payload \in TripPayloads, class \in TripClasses }
    \cup { create_with_extension(id, 1, ext, payload, class) :
             id \in TripIds, ext \in TripExtensions, payload \in TripPayloads,
             class \in TripClasses }

TripInit ==
    /\ crypto = BcCrypto(Unencrypted, <<>>)
    /\ CallIdle
    /\ \E msg \in TripMessages : call_args = Some(msg)

\* BcMessage::serialize (bc_header.cpp:171-181); the bytes reach the socket
TripSerialize ==
    /\ sent = <<>>
    /\ sent' = <<BcMessage_serialize(Get(call_args))>>
    /\ sock' = BcMessage_serialize(Get(call_args))
    /\ UNCHANGED <<connVars, wire, histVars, authVars, streamVars, extVars>>

\* what the receive_message call with outcome r leaves behind
TripReceived(r) ==
    /\ ReceiveEffect(r)
    /\ recv_offset' = recv_offset + r.body_len
    /\ call_result' = Some([returned |-> r.msg, thrown |-> r.throws])

\* Connection::receive_message, called once (connection.cpp:155-349)
TripReceive ==
    /\ sent # <<>>
    /\ call_result = None
    /\ TripReceived(receive_message(recv_buffer, sock, crypto, binary_mode_nums))
    /\ UNCHANGED <<crypto, send_offset, msg_num_counter, wire, sent, cam_sent, authVars,
                   streamVars, sockVars, raceVars, loopVars, numVars, cipherVars,
                   call_args, buildVars>>

TripNext == TripSerialize \/ TripReceive

SpecRoundTrip == TripInit /\ [][TripNext]_vars

\* C23: for any message made by create_header_only, create_with_payload or
\* create_with_extension with any message class, receive_message on its
\* serialized bytes under the Unencrypted cipher returns a message with the same
\* header, the same extension bytes and the same payload bytes.
C23_MessageRoundTrip ==
    call_result # None =>
        /\ ~Get(call_result).thrown
        /\ Get(call_result).returned = Some(Get(call_args))

(***************************************************************************)
(* SpecSend: Connection::send_message called a few times in a row on a     *)
(* connection under each session cipher; call_args holds the message and   *)
(* send_offset_ as the call found it, call_result whether send_raw         *)
(* succeeded.                                                              *)
(***************************************************************************)
MaxSends == 2

SendMessages ==
    { create_header_only(MSG_ID_VIDEO_STOP, 1, MSG_CLASS_MODERN_24),
      create_with_payload(MSG_ID_VIDEO, 1, CamPayload, MSG_CLASS_MODERN_24),
      create_with_payload(MSG_ID_LOGIN, 1, PlainExt \o CamPayload, MSG_CLASS_MODERN_24),
      create_with_payload(MSG_ID_VIDEO, 1, PlainExt, MSG_CLASS_LEGACY),
      create_with_extension(MSG_ID_VIDEO, 2, PlainExt, CamPayload, MSG_CLASS_MODERN_24),
      create_with_extension(MSG_ID_VIDEO, 2, BinaryDataTag, <<>>, MSG_CLASS_MODERN_24_ALT) }

SendInit ==
    /\ crypto \in SessionCiphers
    /\ CallIdle
    /\ call_args = None

\* Connection::send_message (connection.cpp:118-153)
Send ==
    /\ Len(sent) < MaxSends
    /\ \E msg \in SendMessages, sent_ok \in BOOLEAN :
          /\ call_args' = Some([msg |-> msg, send_offset |-> send_offset])
          /\ call_result' = Some(sent_ok)
          /\ IF sent_ok THEN SendMessage(msg) ELSE UNCHANGED <<sent, send_offset>>
    /\ UNCHANGED <<crypto, recv_offset, recv_buffer, binary_mode_nums, msg_num_counter, wire,
                   sock, histVars, authVars, streamVars, sockVars, raceVars, loopVars,
                   numVars, cipherVars, buildVars>>

SendNext == Send

SpecSend == SendInit /\ [][SendNext]_vars

\* C24: under BcXor, send_message leaves the header as serialized and encrypts
\* the whole body (extension then payload) with the connection's send offset,
\* as the call found it, as the BcXor offset.
C24_BodyEncryptedAtSendOffset ==
    (/\ call_args # None
     /\ Get(call_result)
     /\ crypto.type = BCEncrypt
     /\ Get(call_args).msg.header.body_len > 0)
    => LET msg == Get(call_args).msg
       IN  sent[Len(sent)] =
              BcHeader_serialize(msg.header)
              \o bc_encrypt_decrypt(Get(call_args).send_offset,
                                    msg.extension_data \o msg.payload_data)

(***************************************************************************)
(* The encryption offsets over a login, checked under SpecLogin.           *)
(***************************************************************************)
\* the body bytes of the messages the receive calls of log returned
RECURSIVE ReceivedBodyBytes(_)
ReceivedBodyBytes(log) ==
    IF log = <<>> THEN 0
    ELSE (IF Head(log) = None THEN 0 ELSE Get(Head(log)).header.body_len)
         + ReceivedBodyBytes(Tail(log))

\* login has returned success after installing the Aes or FullAes cipher
PromotedLogin ==
    /\ pc = "done"
    /\ result.success
    /\ Negotiated \in {Aes, FullAes}

\* C25: both offsets are zero once the login cipher is installed and the modern
\* login is about to be sent; from there until a promotion send_offset_ is the
\* body length of the modern login sent and recv_offset_ the body bytes of the
\* messages received since; a login that succeeds with Aes or FullAes returns
\* with both offsets zero.
C25_OffsetsOverLogin ==
    /\ pc = "send_modern" => send_offset = 0 /\ recv_offset = 0
    /\ (Len(sent) = 2 /\ ~PromotedLogin)
       => /\ send_offset = Len(sent[2]) - HEADER_SIZE_24
          /\ recv_offset = ReceivedBodyBytes(phase_log)
    /\ PromotedLogin => send_offset = 0 /\ recv_offset = 0

\* a login has succeeded with Aes negotiated after an unsolicited message with a
\* body and the LOGIN response with its document were received
C25_Witness ==
    /\ PromotedLogin
    /\ Negotiated = Aes
    /\ Len(phase_log) >= 2
    /\ ReceivedBodyBytes(phase_log) > Len(CamPayload)
    /\ Len(sent[2]) > HEADER_SIZE_24
    /\ send_offset = 0
    /\ recv_offset = 0

(***************************************************************************)
(* The negotiation response code, checked under SpecLogin.                 *)
(***************************************************************************)
\* the LOGIN messages receive_message has returned, in order; the first is the
\* one receive_encryption_negotiation broke its loop on
LoginReplies == SelectSeq(recv_log, LAMBDA e : e.msg.header.msg_id = MSG_ID_LOGIN)

NegotiationCode == LoginReplies[1].msg.header.response_code

\* the cipher the low byte of a 0xDD code stands for
CodeCipher(low) ==
    CASE low = 0 -> Unencrypted
      [] low = 1 -> BCEncrypt
      [] low = 2 -> Aes
      [] low = 18 -> FullAes
      [] OTHER -> Unencrypted

\* login() went on to the modern login after the negotiation
HandshakeContinued ==
    \/ pc \in {"send_modern", "recv_login"}
    \/ Len(sent) = 2
    \/ pc = "done" /\ result.error_message = "Failed to send modern login request"

\* C29: a negotiation response whose code has high byte 0xDD selects Unencrypted
\* for low byte 0x00, BcXor for 0x01, Aes for 0x02, FullAes for 0x12 and
\* Unencrypted for every other low byte, and the handshake goes on.
C29_NegotiationCode ==
    (LoginReplies # <<>> /\ NegotiationCode \div 256 = 221)
    => /\ negotiation # None
       /\ Negotiated = CodeCipher(NegotiationCode % 256)
       /\ result.encryption_type = Negotiated
       /\ HandshakeContinued

\* code 0xDD05 was received, Unencrypted was selected and the modern login sent
C29_Witness ==
    /\ LoginReplies # <<>>
    /\ NegotiationCode = ENC_RESP_UNKNOWN
    /\ Negotiated = Unencrypted
    /\ crypto.type = Unencrypted
    /\ pc = "recv_login"
    /\ Len(sent) = 2

\* C30: a negotiation response whose code has a high byte other than 0xDD is
\* rejected: login fails and no modern login is sent.
C30_ForeignCodeRejected ==
    (LoginReplies # <<>> /\ NegotiationCode \div 256 # 221)
    => /\ pc = "done"
       /\ ~result.success
       /\ Len(sent) = 1

(***************************************************************************)
(* The header wait of receive_message, checked under SpecFrame.            *)
(***************************************************************************)
\* the camera message the next successful receive_message call is to return
NextFramed == cam_sent[Len(recv_log) + 1]

\* C27: receive_message parses the header as soon as 20 bytes are buffered, so a
\* call that has a whole message with a 20-byte header and body_len 0 buffered
\* returns it without any further byte arriving.
C27_EmptyTwentyByteMessageReturned ==
    ~ ( /\ ~last_ok
        /\ Len(recv_log) < Len(cam_sent)
        /\ header_size(NextFramed.header) = HEADER_SIZE_20
        /\ NextFramed.header.body_len = 0
        /\ Len(recv_buffer) >= HEADER_SIZE_20 )

\* C28: every message receive_message returns with a 24-byte header has
\* payload_offset <= body_len, and its extension of payload_offset bytes and its
\* payload add up to body_len bytes.  Checked under SpecRecv.
C28_OffsetWithinBody ==
    \A i \in Received :
        LET msg == recv_log[i].msg
        IN  header_size(msg.header) = HEADER_SIZE_24
            => /\ Get(msg.header.payload_offset) <= msg.header.body_len
               /\ Len(msg.extension_data) = Get(msg.header.payload_offset)
               /\ Len(msg.extension_data) + Len(msg.payload_data) = msg.header.body_len

(***************************************************************************)
(* SpecPlain: a logged-in connection receiving messages with 20-byte       *)
(* headers, some after a message that put their msg_num into the           *)
(* binary-mode set.                                                        *)
(***************************************************************************)
\* a body long enough for the message to fill the 24 bytes the first loop of
\* receive_message waits for
PlainBody == PlainExt \o CamPayload

PlainCamMessages ==
    { CamWithExt(MSG_ID_VIDEO, 1, BinaryDataTag, CamPayload) }
    \cup { CamNoExt(id, n, class, PlainBody) :
             id \in {MSG_ID_MOTION, MSG_ID_VIDEO, MSG_ID_VIDEO_STOP},
             n \in MsgNums,
             class \in {MSG_CLASS_LEGACY, MSG_CLASS_MODERN_20} }

PlainCameraSend ==
    /\ Len(cam_sent) < MaxCamMsgs
    /\ wire = <<>> /\ sock = <<>> /\ recv_buffer = <<>>
    /\ \E m \in PlainCamMessages : CameraSend(m)
    /\ UNCHANGED <<media_records, media_sent>>

PlainNext == PlainCameraSend \/ RecvDeliver \/ Receive

SpecPlain == RecvInit /\ [][PlainNext]_vars

\* C26: a received message whose header carries no payload_offset is delivered
\* with an empty extension and its whole body as payload, unchanged when its
\* msg_num is in the binary-mode set or its msg_id is VIDEO or VIDEO_STOP, under
\* every cipher, and decrypted with the current cipher otherwise.
C26_NoOffsetBody ==
    \A i \in Received :
        cam_sent[i].header.payload_offset = None
        => /\ recv_log[i].msg.header = cam_sent[i].header
           /\ recv_log[i].msg.extension_data = <<>>
           /\ Len(recv_log[i].msg.payload_data) = cam_sent[i].header.body_len
           /\ IF \/ cam_sent[i].header.msg_num \in recv_log[i].nums_before
                 \/ cam_sent[i].header.msg_id \in {MSG_ID_VIDEO, MSG_ID_VIDEO_STOP}
              THEN recv_log[i].msg.payload_data = cam_sent[i].payload
              ELSE recv_log[i].msg.payload_data =
                      decrypt(crypto, cam_sent[i].header.channel_id, cam_sent[i].payload)

\* under FullAes a MOTION message without payload_offset was delivered unchanged
\* because its msg_num was in the binary-mode set, and one whose msg_num was not
\* came out decrypted
C26_Witness ==
    /\ crypto.type = FullAes
    /\ Len(recv_log) = 2
    /\ cam_sent[2].header.payload_offset = None
    /\ cam_sent[2].header.msg_id = MSG_ID_MOTION
    /\ cam_sent[2].header.msg_num \in recv_log[2].nums_before
    /\ recv_log[2].msg.payload_data = PlainBody

\* the Encryption document of the negotiation response as
\* receive_encryption_negotiation reads it: the payload, through a transient
\* BcXor cipher unless the code selects Unencrypted
NegotiationDocument ==
    LET payload == LoginReplies[1].msg.payload_data
    IN  IF NegotiationCode \div 256 = 221 /\ CodeCipher(NegotiationCode % 256) # Unencrypted
        THEN bc_encrypt_decrypt(0, payload)
        ELSE payload

\* C31: when the negotiation response has no payload, or a payload that does not
\* parse as an Encryption document with a nonce, login fails and the modern
\* login is not sent.
C31_MissingNonceFails ==
    ( /\ LoginReplies # <<>>
      /\ \/ NegotiationDocument = <<>>
         \/ parse_encryption(NegotiationDocument) = None )
    => /\ pc = "done"
       /\ ~result.success
       /\ Len(sent) = 1

\* C38: when login fails after BcXor, Aes or FullAes was negotiated, the
\* connection keeps the BcXor cipher installed for the login and the LoginResult
\* names the negotiated mode; nothing is rolled back.
C38_FailedLoginKeepsLoginCipher ==
    ( /\ pc = "done"
      /\ ~result.success
      /\ negotiation # None
      /\ Negotiated \in {BCEncrypt, Aes, FullAes} )
    => /\ crypto = BcCrypto(BCEncrypt, <<>>)
       /\ result.encryption_type = Negotiated

\* FullAes was negotiated and the modern login could not be sent
C38_Witness ==
    /\ pc = "done"
    /\ ~result.success
    /\ result.error_message = "Failed to send modern login request"
    /\ negotiation # None
    /\ Negotiated = FullAes
    /\ crypto = BcCrypto(BCEncrypt, <<>>)
    /\ result.encryption_type = FullAes

\* the payload of the LOGIN response as receive_message returned it
ResponsePayload == Get(login_response).payload_data

ParsedFrame == Get(Get(call_result).returned).frame

ParsedSize == Get(Get(call_result).returned).consumed

\* parse has returned a frame of the given kinds
ParseReturned(kinds) ==
    /\ call_result # None
    /\ Get(call_result).returned # None
    /\ ParsedFrame.type \in kinds

\* C32: a successful parse of an IFrame or PFrame record with payload_size P and
\* additional_header_size A consumes 4 + 20 + A + P + pad bytes, pad the least
\* value with (P + pad) mod 8 = 0, and its frame data is the P bytes that begin
\* 24 + A bytes into the record; an IFrame yields a POSIX time exactly when
\* A >= 4, a PFrame never does.
C32_VideoRecordLayout ==
    ParseReturned({"IFrame", "PFrame"})
    => LET input == Get(call_args)
           P == read_u32_le(input, 8)
           A == read_u32_le(input, 12)
           pad == (8 - (P % 8)) % 8
       IN  /\ ParsedSize = 4 + 20 + A + P + pad
           /\ ParsedFrame.data = SubSeq(input, 24 + A + 1, 24 + A + P)
           /\ ParsedFrame.type = "IFrame"
              => (ParsedFrame.posix_time # None <=> A >= 4)

\* C33: for every ADPCM record parse accepts, with payload_size P, the parse
\* consumes 4 + 4 + P bytes and returns exactly the P - 4 bytes that follow the
\* more_magic and block_size fields, all inside the consumed range and the
\* input; no call ends in an exception.
C33_AdpcmSpanInsideRecord ==
    /\ call_result # None => ~Get(call_result).thrown
    /\ ParseReturned({"Adpcm"})
       => LET input == Get(call_args)
              P == read_u16_le(input, 4)
          IN  /\ ParsedSize = 4 + 4 + P
              /\ ParsedSize <= Len(input)
              /\ Len(ParsedFrame.data) = P - 4
              /\ ParsedFrame.data = SubSeq(input, 13, 8 + P)

(***************************************************************************)
(* SpecAfterStop: the session of SpecSession, and after stop() has         *)
(* returned the camera sends one more message, without an extension, which *)
(* the owner of the connection receives.                                   *)
(***************************************************************************)
\* the plaintext of the late message, and the msg_nums it may carry: the one the
\* start response flagged as binary, and one never flagged
LateDocument == GarbageDoc

LateNums == {cam_sent[1].header.msg_num, cam_sent[1].header.msg_num + 1}

IsLate(m) == m.header.msg_id = MSG_ID_MOTION

AfterStopCameraSend ==
    /\ stream_pc = "stopped"
    /\ ~peer_closed
    /\ CameraTurn
    /\ \A i \in 1..Len(cam_sent) : ~IsLate(cam_sent[i])
    /\ \E n \in LateNums :
          CameraSend(CamNoExt(MSG_ID_MOTION, n, MSG_CLASS_MODERN_24,
                              encrypt(crypto, 0, LateDocument)))
    /\ UNCHANGED <<media_records, media_sent>>

\* Connection::receive_message called once stop() has returned
AfterStopReceive == stream_pc = "stopped" /\ Receive

AfterStopNext == SessionNext \/ AfterStopCameraSend \/ AfterStopReceive

SpecAfterStop == StreamInit /\ [][AfterStopNext]_vars

\* C34: once stop() has completed no msg_num is flagged as binary any more: a
\* message without an extension received afterwards is decrypted like any
\* non-binary message, whether or not its msg_num was flagged during the session.
C34_StopClearsBinaryMode ==
    \A i \in Received :
        IsLate(recv_log[i].msg) => recv_log[i].msg.payload_data = LateDocument

(***************************************************************************)
(* SpecFirst: a streaming session in which the first message the camera    *)
(* writes after the start request is any message: a VIDEO or a MOTION      *)
(* message, numbered as the request or not, with code 200 or 400, and with *)
(* an ADPCM record for its payload.  The VIDEO messages after it carry one *)
(* AAC record each, and a MOTION message among them carries a P frame.     *)
(***************************************************************************)
FirstCameraAnswer ==
    /\ ~peer_closed
    /\ stream_pc = "starting"
    /\ cam_sent = <<>>
    /\ CameraTurn
    /\ \E msg_id \in {MSG_ID_VIDEO, MSG_ID_MOTION} :
       \E n \in {msg_num_counter, msg_num_counter + 1} :
       \E code \in {RESPONSE_CODE_OK, RESPONSE_CODE_BAD_REQUEST} :
          CameraSend([ CamWithExt(msg_id, n, ExtensionOpen \o BinaryDataTag \o ExtensionClose,
                                  AdpcmRecord.bytes)
                         EXCEPT !.header.response_code = code ])
    /\ UNCHANGED <<media_records, media_sent>>

FirstNext ==
    \/ FirstCameraAnswer
    \/ SessionCameraSendVideo
    \/ StreamCameraSendOther
    \/ StreamDeliver
    \/ StreamStart
    \/ StreamStartResponse
    \/ LoopCheck
    \/ LoopReceive
    \/ StreamStop
    \/ StreamJoin

SpecFirst == StreamInit /\ [][FirstNext]_vars

\* start() has returned
StartReturned == stream_pc \in {"running", "joining", "stopped", "failed"}
\* start() has returned true
StartSucceeded == stream_pc \in {"running", "joining", "stopped"}

\* the identity and the code of a header
Identity(h) == <<h.msg_id, h.msg_num, h.response_code>>

\* C35: start takes the first message receive_message returns after the
\* Preview request for the response, whatever its msg_id and msg_num: it skips
\* no message, and it returns true exactly when the response_code of that first
\* message is 200.
C35_FirstMessageDecides ==
    /\ StartSucceeded => recv_log # <<>>
    /\ StartReturned /\ recv_log # <<>> =>
          /\ Identity(recv_log[1].msg.header) = Identity(cam_sent[1].header)
          /\ StartSucceeded <=> recv_log[1].msg.header.response_code = RESPONSE_CODE_OK
          /\ stream_pc = "failed" => Len(recv_log) = 1

\* start has returned true on a MOTION message that does not carry the msg_num
\* of the request
C35_Witness ==
    /\ stream_pc = "running"
    /\ recv_log[1].msg.header.msg_id = MSG_ID_MOTION
    /\ recv_log[1].msg.header.msg_num # StartRequestHeader.msg_num

\* the messages the receive thread has been given
LoopLog == IF recv_log = <<>> THEN <<>> ELSE Tail(recv_log)

\* the VIDEO messages among them
IsVideoEntry(e) == e.msg.header.msg_id = MSG_ID_VIDEO
LoopVideo == SelectSeq(LoopLog, IsVideoEntry)

\* C36: the payload of the response start consumed never enters the media
\* buffer: the media byte stream is the payloads of the VIDEO messages the
\* receive loop received after start succeeded, so the frames delivered are
\* theirs, one AAC frame each, and nothing of the response is left buffered.
C36_ResponsePayloadDropped ==
    /\ frames = [i \in 1..Len(LoopVideo) |-> Get(AacRecord.frame)]
    /\ media_buffer = <<>>
    /\ \A i \in 1..Len(LoopVideo) : LoopVideo[i].msg.payload_data = AacRecord.bytes

\* start succeeded on a VIDEO response whose payload is an ADPCM record, and the
\* loop has delivered a frame since
C36_Witness ==
    /\ StartSucceeded
    /\ recv_log[1].msg.header.msg_id = MSG_ID_VIDEO
    /\ recv_log[1].msg.payload_data = AdpcmRecord.bytes
    /\ frames # <<>>

(***************************************************************************)
(* SpecInvalid: a connection on which the camera writes messages and bytes *)
(* that are no header, while the client calls receive_message, disconnect  *)
(* and connect one after another.                                          *)
(***************************************************************************)
InvalidCameraSend ==
    /\ fd_open
    /\ ~peer_closed
    /\ wire = <<>>
    /\ Len(sock) + Len(recv_buffer) <= HEADER_SIZE_24
    /\ \/ /\ Len(cam_sent) < MaxCamMsgs
          /\ CameraSend(RaceMessage)
          /\ UNCHANGED <<media_records, media_sent>>
       \/ /\ wire' = BadHeaderBytes
          /\ UNCHANGED <<connVars, sock, sent, histVars, authVars, streamVars, extVars>>

InvalidDeliver ==
    /\ fd_open
    /\ wire # <<>>
    /\ \E k \in {Min(ChunkSmall, Len(wire)), Len(wire)} : Deliver(k)

\* Connection::receive_message, its test of socket_fd_ included
\* (connection.cpp:155-349)
ReceiveCall ==
    /\ IF socket_fd < 0
       THEN /\ last_ok' = FALSE
            /\ last_failure' = "not_connected"
            /\ UNCHANGED <<recv_buffer, sock, binary_mode_nums, recv_log, recv_offset>>
       ELSE /\ last_failure' = receive_failure(recv_buffer, sock, peer_closed)
            /\ LET r == receive_message(recv_buffer, sock, crypto, binary_mode_nums)
               IN  ReceiveEffect(r) /\ recv_offset' = recv_offset + r.body_len
    /\ UNCHANGED <<crypto, send_offset, msg_num_counter, wire, sent, cam_sent, authVars,
                   streamVars, sockVars, raceVars, calls_after_stop, other_stop, numVars,
                   cipherVars, callVars, buildVars>>

\* Connection::disconnect (connection.cpp:107-116)
Disconnect ==
    /\ socket_fd' = -1
    /\ fd_open' = FALSE
    /\ recv_buffer' = <<>>
    /\ send_offset' = 0
    /\ recv_offset' = 0
    /\ UNCHANGED <<crypto, binary_mode_nums, msg_num_counter, netVars, histVars, authVars,
                   streamVars, peer_closed, raceVars, loopVars, numVars, cipherVars,
                   callVars, buildVars>>

\* Connection::connect (connection.cpp:24-105): disconnect() first on a
\* connection that has a socket, then a new socket, which connects or not
Connect ==
    /\ recv_buffer' = IF socket_fd >= 0 THEN <<>> ELSE recv_buffer
    /\ send_offset' = IF socket_fd >= 0 THEN 0 ELSE send_offset
    /\ recv_offset' = IF socket_fd >= 0 THEN 0 ELSE recv_offset
    /\ \E ok \in BOOLEAN :
          /\ socket_fd' = IF ok THEN 0 ELSE -1
          /\ fd_open' = ok
    /\ wire' = <<>>
    /\ sock' = <<>>
    /\ peer_closed' = FALSE
    /\ UNCHANGED <<crypto, binary_mode_nums, msg_num_counter, sent, histVars, authVars,
                   streamVars, raceVars, loopVars, numVars, cipherVars, callVars, buildVars>>

InvalidNext ==
    \/ InvalidCameraSend
    \/ InvalidDeliver
    \/ ReceiveCall
    \/ Disconnect
    \/ Connect

SpecInvalid == RaceIdle /\ [][InvalidNext]_vars

\* the receive buffer holds a whole header's worth of bytes that begin with
\* neither magic
Poisoned ==
    /\ Len(recv_buffer) >= HEADER_SIZE_24
    /\ read_u32_le(recv_buffer, 0) \notin {MAGIC_HEADER, MAGIC_HEADER_REV}

\* C37: a receive_message call that fails on an invalid header erases nothing
\* of the receive buffer; while the buffer holds the invalid header every call
\* fails on it again, reads nothing from the socket and returns no message;
\* and the buffer changes only when disconnect() clears it.
C37_InvalidHeaderSticks ==
    [][ /\ (ReceiveCall /\ last_failure' = "invalid_header") =>
              /\ recv_buffer' \o sock' = recv_buffer \o sock
              /\ Len(recv_buffer') >= Len(recv_buffer)
              /\ Poisoned'
        /\ (Poisoned /\ ReceiveCall) =>
              /\ last_failure' = "invalid_header"
              /\ ~last_ok'
              /\ recv_buffer' = recv_buffer
              /\ sock' = sock
              /\ recv_log' = recv_log
        /\ (Poisoned /\ recv_buffer' # recv_buffer) =>
              /\ recv_buffer' = <<>>
              /\ Disconnect \/ Connect ]_vars

\* a call has failed on an invalid header, which is still buffered, and bytes
\* the camera sent since wait unread in the socket
C37_Witness ==
    /\ Poisoned
    /\ last_failure = "invalid_header"
    /\ sock # <<>>

(***************************************************************************)
(* SpecTwoStops: a streaming session whose stop() is called by two         *)
(* threads.  One is the caller of start(), whose stop() is StreamStop and  *)
(* StreamJoin, or StreamStopEarly when the flag is already clear; the      *)
(* other stands at other_stop and runs stop() statement by statement.      *)
(* Two join() calls at once on one std::thread are a data race: the second *)
(* caller's join then returns or throws std::system_error.                 *)
(***************************************************************************)
\* stop() of the caller of start() when streaming_ is already false
\* (stream.cpp:65-68)
StreamStopEarly ==
    /\ stream_pc = "running"
    /\ ~streaming
    /\ stream_pc' = "stopped"
    /\ UNCHANGED <<connVars, netVars, histVars, authVars, thread_pc, streaming, media_buffer,
                   stats, stream_info_received, stream_info, stream_binary_nums, frames,
                   media_records, media_sent, extVars>>

\* the other thread's stop(): the test of streaming_ (stream.cpp:65-68)
OtherStopTest ==
    /\ other_stop = "idle"
    /\ StartSucceeded
    /\ other_stop' = IF streaming THEN "entered" ELSE "returned"
    /\ UNCHANGED <<connVars, netVars, histVars, authVars, streamVars, sockVars, raceVars,
                   last_failure, calls_after_stop, numVars, cipherVars, callVars, buildVars>>

\* the other thread's stop(): streaming_.store(false) and the stop request
\* (stream.cpp:70-74)
OtherStopAnnounce ==
    /\ other_stop = "entered"
    /\ streaming' = FALSE
    /\ msg_num_counter' = (msg_num_counter + 1) % 65536
    /\ SendMessage(PreviewMessage(MSG_ID_VIDEO_STOP, msg_num_counter'))
    /\ other_stop' = "joining"
    /\ UNCHANGED <<crypto, recv_offset, recv_buffer, binary_mode_nums, wire, sock, histVars,
                   authVars, stream_pc, thread_pc, media_buffer, stats, stream_info_received,
                   stream_info, stream_binary_nums, frames, media_records, media_sent,
                   sockVars, raceVars, last_failure, calls_after_stop, numVars, cipherVars,
                   callVars, buildVars>>

\* the other thread's stop(): the join, once the receive thread has ended, and
\* the clearing of the set (stream.cpp:76-86)
OtherStopJoin ==
    /\ other_stop = "joining"
    /\ thread_pc = "ended"
    /\ stream_binary_nums' = {}
    /\ other_stop' \in IF stream_pc = "joining" THEN {"returned", "thrown"} ELSE {"returned"}
    /\ UNCHANGED <<connVars, netVars, histVars, authVars, stream_pc, thread_pc, streaming,
                   media_buffer, stats, stream_info_received, stream_info, frames,
                   media_records, media_sent, sockVars, raceVars, last_failure,
                   calls_after_stop, numVars, cipherVars, callVars, buildVars>>

TwoStopsNext ==
    \/ SessionCameraRespond
    \/ SessionCameraSendVideo
    \/ StreamDeliver
    \/ StreamStart
    \/ StreamStartResponse
    \/ LoopCheck
    \/ LoopReceive
    \/ StreamStop
    \/ StreamStopEarly
    \/ StreamJoin
    \/ OtherStopTest
    \/ OtherStopAnnounce
    \/ OtherStopJoin

SpecTwoStops == StreamInit /\ [][TwoStopsNext]_vars

\* a call of stop() has returned
StopReturned == stream_pc = "stopped" \/ other_stop = "returned"

\* C39: once a call of stop() has returned, by whichever thread and however
\* many calls there are, the receive thread has ended and no callback is
\* invoked any more: no frame is delivered and no stream info.
C39_NoCallbackAfterStop ==
    [][StopReturned =>
          /\ thread_pc = "ended"
          /\ frames' = frames
          /\ stream_info' = stream_info]_vars

Spec == SpecRecv
=============================================================================
